---- MODULE Spec2Model ----
(***************************************************************************)
(* Verification model of NVA-TheBeginning/game-ai: the tick handler of the *)
(* three runtimes (lib/bot_connection.py, main.py, lib/server_interface.py)*)
(* the persistent Q-table (lib/qtable.py) and the task orchestration       *)
(* (lib/connection_handler.py) and the learning functions (lib/utils.py,  *)
(* main.py).                                                               *)
(*                                                                         *)
(* Abstractions, stated once:                                              *)
(*  - a snapshot keeps the fields the handlers branch on: tick,            *)
(*    inSpawnPhase, whether candidates.emptyNeighbors is non-empty (the    *)
(*    frames of the tick model have no enemyNeighbors), whether map        *)
(*    width/height are set; seq is a history field numbering the accepted  *)
(*    frames;                                                              *)
(*  - an action is its type ("spawn", "attack", "none"); Python None is    *)
(*    "null";                                                              *)
(*  - in the tick model a Q-value is abstracted to the number of learning  *)
(*    updates written to its entry; the persistence model keeps integer    *)
(*    values;                                                              *)
(*  - epsilon is a fixed-point number with four decimals;                  *)
(*  - random.random() < epsilon can always succeed (epsilon >= 0.02), so   *)
(*    best_action may return any legal action;                             *)
(*  - AUTOSAVE_INTERVAL is scaled down to a few ticks;                     *)
(*  - the persistence model keys a table by (state, action) pair and keeps *)
(*    integer values; its tables are smaller than the write buffer of the  *)
(*    file object, so the bytes of pickle.dump reach the file when the     *)
(*    file object is closed;                                               *)
(*  - tasks of one process are scheduled cooperatively: a task runs until  *)
(*    it suspends at an await or finishes.                                 *)
(*                                                                         *)
(* Several specifications share the module. Each one starts the variables  *)
(* of the others at rest and leaves them unchanged:                        *)
(*    Spec          the tick handlers on one open connection;              *)
(*    SpecSave      two processes persisting their tables to one file;     *)
(*    SpecCrash     one process saving, crashing and loading;              *)
(*    SpecLock      the tasks of one process calling the table operations; *)
(*    SpecConn      the tasks started by run_connection;                   *)
(*    SpecSess      run_connection called again on the same handler;       *)
(*    SpecRun       the reconnect loop of run with its tick handler;       *)
(*    SpecReconnect the reconnect loop of run without state frames;        *)
(*    SpecTable     the operations of QTable, one at a time, on whole      *)
(*                  tables (state key -> action key -> value);             *)
(*    SpecLearn     the learning functions of lib/utils.py and of the      *)
(*                  Agent of main.py, applied to tables in insertion order.*)
(*    SpecFun       get_possible_actions, get_state_key (main.py, bot.py)  *)
(*                  and the epsilon decay, applied to drawn snapshots.     *)
(***************************************************************************)
EXTENDS Integers, Sequences, FiniteSets, TLC

\* ------------------------------------------------------------------ bounds
\* state frames received by a tick handler, and the largest tick they carry
MaxFrames == 3
MaxTick == 3
\* save calls per process, and the largest Q-value
MaxSaves == 1
MaxVal == 2
\* table operations called per task
MaxCalls == 2
\* messages delivered by the websocket, and the capacity of the action queue
MaxMsgs == 2
MaxQueue == 2
\* decisions made by agent_loop
MaxActs == 3
\* iterations of the reconnect loop and 'created' frames
MaxSessions == 6
MaxGames == 1
\* where the reconnect loop receives state frames: its iterations, the frames
\* and their largest tick
MaxRunSessions == 2
MaxRunFrames == 2
MaxRunTick == 2
\* later calls of run_connection on one handler
MaxRestarts == 1
\* the largest value set_q_value writes
MaxQ == 1
\* table operations called in a run
MaxTabOps == 3
\* learning functions called on a table
MaxLearnOps == 1
\* the largest number of enemy neighbours, and of empty neighbours, of a
\* snapshot; calls of the functions on snapshots
MaxCells == 3
MaxFunOps == 2

\* ------------------------------------------------------- program constants
NoTick == -1
EpsilonInit == 2000
EpsilonMin == 200
EpsilonDecay == 9995
AUTOSAVE_INTERVAL == 2
PRUNE_MAX_TARGETS == 4
BackoffInit == 1
BackoffCap == 20

VARIABLES
    mode,             \* which runtime handles the frames
    pc,               \* position of the handler: "idle", "sending", "auto_sending"
    msg,              \* the state frame handed to the handler
    nrecv,            \* number of state frames received
    naccept,          \* number of frames that passed the tick test
    last_tick, last_in_spawn, player_id, autosave_timer, spawn_sent,
    env_current, env_previous,
    previous_state, previous_action,
    epsilon,
    agent_qtable,
    chosen,           \* the action the handler is about to send
    out,              \* intents handed to the transport for the last accepted frame
    lastLearn,        \* history: the snapshot pair of the last learning update
    useCount,         \* history: learning updates made with the recorded transition
    saved,            \* history: the last handler step called agent.save()
    inOrder,          \* history: every accepted tick exceeded the one before it
    lastAccepted,     \* history: the frame accepted last, NoFrame before the first
    pendingHanded     \* history: the recorded action had been handed to the
                      \* transport when it was recorded

VARIABLES
    qmem,             \* _local_qtable of each process
    qdirty,           \* _dirty of each process
    spc,              \* position of each process in save()
    file,             \* the table file
    flock,            \* holder of the advisory lock on the file
    nsave,            \* save calls made by each process
    snap,             \* history: _local_qtable when the last save() began
    file0,            \* history: the file before any save
    overlap,          \* history: a save() began while another was under way
    readTorn,         \* history: a saver read a torn image
    crashed,          \* history: a process crashed
    persisted,        \* history: the file has held a non-empty complete image
    lostAll           \* history: load() started fresh although entries had
                      \* been persisted

VARIABLES
    tpc,              \* position of each task in its table operation
    top,              \* the operation each task runs
    ncalls,           \* operations called by each task
    lock_holder,      \* holder of QTable._lock
    running,          \* the task the event loop is running
    ltable,           \* state keys of _local_qtable
    ldirty,           \* _dirty
    lfile,            \* the table file: does it exist, and its state keys
    cancelledAt       \* history: where each task was when it was cancelled

VARIABLES
    crunning,         \* ConnectionHandler.running
    rcpc,             \* position of run_connection
    rpc, gpc, dpc, xpc, \* position of receive_loop, agent_loop,
                      \* action_sender_loop and the additional task
    gcancel, dcancel, xcancel, \* cancellation requested
    state_event,      \* env._state_event is set
    nmsgs,            \* messages received
    queue,            \* env._action_queue, oldest action first
    lateStep,         \* history: a decision or dispatch step ran after
                      \* run_connection returned
    earlyCancel,      \* history: a task was cancelled while receive_loop ran
    ndec,             \* decisions made by agent_loop; a decision's number
                      \* identifies its action
    decidedAt,        \* nmsgs at the latest decision, 0 before the first
    sent_actions,     \* history: the actions handed to send_action, in order
    leftover,         \* history: per later run_connection, the actions found queued
    gfailed, dfailed  \* history: agent_loop, action_sender_loop left its
                      \* loop through except Exception

tickVars == <<mode, pc, msg, nrecv, naccept, last_tick, last_in_spawn, player_id,
              autosave_timer, spawn_sent, env_current, env_previous,
              previous_state, previous_action, epsilon, agent_qtable, chosen,
              out, lastLearn, useCount, saved, inOrder, lastAccepted,
              pendingHanded>>

saveVars == <<qmem, qdirty, spc, file, flock, nsave, snap, file0, overlap,
              readTorn, crashed, persisted, lostAll>>

lockVars == <<tpc, top, ncalls, lock_holder, running, ltable, ldirty, lfile,
              cancelledAt>>

VARIABLES
    run_pc,           \* position of BotConnection.run
    backoff,          \* backoff, in halves of a second
    nsess,            \* iterations of the while loop of run begun
    established,      \* history: websockets.connect succeeded in this iteration
    consecFails,      \* history: iterations in a row that ended in the except
                      \* clause
    current_game_id,  \* the number of the game announced last, 0 for None
    ngames,           \* 'created' frames received
    finalSaves,       \* history: agent.save() calls of the finally clause in
                      \* this iteration
    sessFirst,        \* history: the number the first accepted frame of this
                      \* iteration has or will have
    endedBy           \* history: what ended the latest connection

VARIABLES
    tq,               \* QTable._local_qtable: state key -> (action key -> value)
    tdirty,           \* QTable._dirty
    tfile,            \* the table file: absent, undecodable, or a table image
    tlast,            \* history: the latest operation called on the table
    tops,             \* operations called so far
    tfile0            \* history: the table file when the run began

VARIABLES
    lq,               \* agent.qtable, keys and row entries in insertion order
    limpl,            \* the implementation: "utils" (lib/utils.py) or "main"
    lops,             \* operations called so far
    lres              \* history: the latest operation and what it returned

VARIABLES
    fsnap,            \* two snapshots the functions are called on
    fcall,            \* history: the latest call and what it returned
    fkeys,            \* history: the key get_state_key returned last, per snapshot
    feps,             \* agent.epsilon
    fops              \* calls made so far

chanVars == <<ndec, decidedAt, sent_actions, leftover, gfailed, dfailed>>

connVars == <<crunning, rcpc, rpc, gpc, dpc, xpc, gcancel, dcancel, xcancel,
              state_event, nmsgs, queue, lateStep, earlyCancel, chanVars>>

runVars == <<run_pc, backoff, nsess, established, consecFails,
             current_game_id, ngames, finalSaves, sessFirst, endedBy>>

tabVars == <<tq, tdirty, tfile, tlast, tops, tfile0>>

learnVars == <<lq, limpl, lops, lres>>

funVars == <<fsnap, fcall, fkeys, feps, fops>>

extVars == <<tabVars, learnVars, funVars>>

vars == <<tickVars, saveVars, lockVars, connVars, runVars, extVars>>

\* ---------------------------------------------------------------- helpers
Range(s) == {s[i] : i \in DOMAIN s}

EmptyFn == [x \in {} |-> 0]

Ticks == 1..MaxTick

\* A state frame as decoded from the wire. Map dimensions are read only by
\* choose_auto_spawn, when there is no empty neighbour during the spawn phase.
Frames ==
    {f \in [tick : Ticks, inSpawn : BOOLEAN, empty : BOOLEAN, map : BOOLEAN] :
        f.map => (f.inSpawn /\ ~f.empty)}

NoFrame == [tick |-> NoTick, inSpawn |-> FALSE, empty |-> FALSE, map |-> FALSE]

Snapshot(f, n) ==
    [seq |-> n, tick |-> f.tick, inSpawn |-> f.inSpawn, empty |-> f.empty,
     map |-> f.map]

NoState == Snapshot(NoFrame, 0)

get_state_key(s) == <<s.inSpawn, s.empty>>

get_action_key(a) == a

get_possible_actions(s) ==
    IF s.inSpawn
    THEN IF s.empty THEN <<"spawn">> ELSE <<"none">>
    ELSE IF ~s.empty THEN <<"none">> ELSE <<"none", "attack">>

choose_auto_spawn(s) ==
    IF s.empty THEN "spawn" ELSE IF s.map THEN "spawn" ELSE "null"

\* A decay step without the floor.
DecayUnbounded(e) == (e * EpsilonDecay) \div 10000

DecayEpsilon(e) ==
    LET d == (e * EpsilonDecay) \div 10000
    IN  IF d > EpsilonMin THEN d ELSE EpsilonMin

\* Agent.best_action's effect on the table: an unseen state key is created with
\* every legal action at 0; when the greedy branch runs (fill), legal actions
\* missing under a known key are added at 0.
BestActionTable(q, s, fill) ==
    LET k    == get_state_key(s)
        acts == Range(get_possible_actions(s))
        q1   == IF k \in DOMAIN q THEN q ELSE q @@ (k :> [a \in acts |-> 0])
    IN  IF fill
        THEN [q1 EXCEPT ![k] = [a \in (DOMAIN q1[k]) \cup acts |->
                                    IF a \in DOMAIN q1[k] THEN q1[k][a] ELSE 0]]
        ELSE q1

\* Agent.update's effect on the table: the entry of the recorded transition is
\* overwritten (here: its write count grows), the key created when absent.
UpdateTable(q, ps, pa) ==
    LET pk  == get_state_key(ps)
        ak  == get_action_key(pa)
        row == IF pk \in DOMAIN q THEN q[pk] ELSE EmptyFn
        old == IF ak \in DOMAIN row THEN row[ak] ELSE 0
        new == [a \in (DOMAIN row) \cup {ak} |-> IF a = ak THEN old + 1 ELSE row[a]]
    IN  [k \in (DOMAIN q) \cup {pk} |-> IF k = pk THEN new ELSE q[k]]

TransitionReady(ps, pa) == ps # NoState /\ pa # "null"

\* ------------------------------------------------------ tick handlers: parts
\* The tick test of lib/bot_connection.py: a non-integer or repeated tick returns.
IsDuplicateBotTypeOnly(tick, last) == tick = NoTick

IsDuplicateBot(tick, last) == tick = NoTick \/ tick = last

\* The tick test of main.py and lib/server_interface.py: equality only (a frame
\* without a tick equals the initial last_tick None).
IsDuplicateMain(tick, last) == tick = last

\* The recorded transition while the chosen action is still being sent:
\* set_previous_state_action runs after send_action_intent has returned.
PendingRecordedBeforeSend(ps, pa, s, a) == <<s, a>>

PendingWhileSending(ps, pa, s, a) == <<ps, pa>>

\* lib/agent.py is not part of the sources. From the specification: the pending
\* transition is handed out when both parts are set, and is cleared after use.
PendingAfterUpdateBot(ps, pa) ==
    IF TransitionReady(ps, pa) THEN <<NoState, "null">> ELSE <<ps, pa>>

\* main.py's Agent.update leaves previous_state / previous_action as they are.
PendingAfterUpdateMain(ps, pa) == <<ps, pa>>

LearnTable(q, ps, pa) == IF TransitionReady(ps, pa) THEN UpdateTable(q, ps, pa) ELSE q

\* History of the learning update made for snapshot s.
LearnHistory(ps, pa, s) ==
    IF TransitionReady(ps, pa)
    THEN /\ lastLearn' = [from |-> ps.seq, to |-> s.seq, action |-> pa]
         /\ useCount' = useCount + 1
    ELSE UNCHANGED <<lastLearn, useCount>>

\* An autosave that fires one frame late.
AutosaveLate ==
    IF autosave_timer + 1 > AUTOSAVE_INTERVAL
    THEN autosave_timer' = 0 /\ saved' = TRUE
    ELSE autosave_timer' = autosave_timer + 1 /\ saved' = FALSE

\* _maybe_autosave, lines 315-319.
Autosave ==
    IF autosave_timer + 1 >= AUTOSAVE_INTERVAL
    THEN autosave_timer' = 0 /\ saved' = TRUE
    ELSE autosave_timer' = autosave_timer + 1 /\ saved' = FALSE

Receive(f) ==
    /\ run_pc = "open"
    /\ pc = "idle"
    /\ nrecv < MaxFrames
    /\ msg' = f
    /\ nrecv' = nrecv + 1
    /\ UNCHANGED <<saveVars, lockVars, connVars, runVars, extVars>>

Discard ==
    /\ saved' = FALSE
    /\ UNCHANGED <<mode, pc, naccept, last_tick, last_in_spawn, player_id,
                   autosave_timer, spawn_sent, env_current, env_previous,
                   previous_state, previous_action, epsilon, agent_qtable, chosen,
                   out, lastLearn, useCount, inOrder, lastAccepted, pendingHanded>>

InOrderAfter(f) == inOrder /\ (last_tick = NoTick \/ f.tick > last_tick)

Accept(f) ==
    /\ naccept' = naccept + 1
    /\ last_tick' = f.tick
    /\ out' = <<>>
    /\ inOrder' = InOrderAfter(f)
    /\ lastAccepted' = f

\* _update_env, _process_prev_transition and the selection of
\* _choose_and_send_action, up to the point where the action is handed to
\* send_action_intent. after is the runtime's treatment of the pending pair.
Decide(f, cleared) ==
    LET s   == Snapshot(f, naccept + 1)
        ps  == previous_state
        pa  == previous_action
        aft == IF cleared THEN PendingAfterUpdateBot(ps, pa)
                          ELSE PendingAfterUpdateMain(ps, pa)
    IN  /\ env_previous' = env_current
        /\ env_current' = s
        /\ LearnHistory(ps, pa, s)
        /\ epsilon' = DecayEpsilon(epsilon)
        /\ \E a \in Range(get_possible_actions(s)), fill \in BOOLEAN :
              /\ agent_qtable' = BestActionTable(LearnTable(agent_qtable, ps, pa), s, fill)
              /\ IF a # "none"
                 THEN LET p == PendingWhileSending(aft[1], aft[2], s, a)
                      IN  /\ pc' = "sending"
                          /\ chosen' = a
                          /\ previous_state' = p[1]
                          /\ previous_action' = p[2]
                          /\ pendingHanded' = IF p = aft THEN pendingHanded
                                                         ELSE a \in Range(out')
                          /\ autosave_timer' = autosave_timer
                          /\ saved' = FALSE
                 ELSE /\ pc' = "idle"
                      /\ chosen' = "null"
                      /\ previous_state' = aft[1]
                      /\ previous_action' = aft[2]
                      /\ pendingHanded' = pendingHanded
                      /\ Autosave

\* send_action_intent: a spawn intent needs a player id; the intent goes to ws.send.
SendActionIntent(a) ==
    /\ player_id' = IF a = "spawn" THEN "assigned" ELSE player_id
    /\ out' = Append(out, a)

\* set_previous_state_action(state, action); in main.py and
\* lib/server_interface.py the two assignments to agent.previous_state and
\* agent.previous_action. sent: the intents handed to the transport so far
\* for this frame.
SetPreviousStateAction(s, a, sent) ==
    /\ previous_state' = s
    /\ previous_action' = a
    /\ useCount' = 0
    /\ pendingHanded' = (a \in Range(sent))

\* ------------------------------------- lib/bot_connection.py: BotConnection
BotDuplicate(f) ==
    /\ mode = "bot"
    /\ Receive(f)
    /\ IsDuplicateBot(f.tick, last_tick)
    /\ Discard

\* _handle_auto_spawn found no spawn location: the frame is dropped.
BotSpawnNoLocation(f) ==
    /\ mode = "bot"
    /\ Receive(f)
    /\ ~IsDuplicateBot(f.tick, last_tick)
    /\ f.inSpawn /\ ~last_in_spawn
    /\ choose_auto_spawn(Snapshot(f, naccept + 1)) = "null"
    /\ Accept(f)
    /\ last_in_spawn' = TRUE
    /\ saved' = FALSE
    /\ UNCHANGED <<mode, pc, player_id, autosave_timer, spawn_sent, env_current,
                   env_previous, previous_state, previous_action, epsilon,
                   agent_qtable, chosen, lastLearn, useCount, pendingHanded>>

BotAutoSpawn(f) ==
    /\ mode = "bot"
    /\ Receive(f)
    /\ ~IsDuplicateBot(f.tick, last_tick)
    /\ f.inSpawn /\ ~last_in_spawn
    /\ choose_auto_spawn(Snapshot(f, naccept + 1)) # "null"
    /\ Accept(f)
    /\ player_id' = "assigned"
    /\ pc' = "auto_sending"
    /\ chosen' = "spawn"
    /\ saved' = FALSE
    /\ UNCHANGED <<mode, last_in_spawn, autosave_timer, spawn_sent, env_current,
                   env_previous, previous_state, previous_action, epsilon,
                   agent_qtable, lastLearn, useCount, pendingHanded>>

BotAutoSpawnSent ==
    /\ mode = "bot"
    /\ pc = "auto_sending"
    /\ out' = Append(out, "spawn")
    /\ SetPreviousStateAction(Snapshot(msg, naccept), "spawn", out')
    /\ last_in_spawn' = TRUE
    /\ pc' = "idle"
    /\ chosen' = "null"
    /\ UNCHANGED <<saveVars, lockVars, connVars, runVars, extVars>>
    /\ UNCHANGED <<mode, msg, nrecv, naccept, last_tick, player_id, autosave_timer,
                   spawn_sent, env_current, env_previous, epsilon, agent_qtable,
                   lastLearn, saved, inOrder, lastAccepted>>

BotProcess(f) ==
    /\ mode = "bot"
    /\ Receive(f)
    /\ ~IsDuplicateBot(f.tick, last_tick)
    /\ ~(f.inSpawn /\ ~last_in_spawn)
    /\ Accept(f)
    /\ Decide(f, TRUE)
    /\ UNCHANGED <<mode, last_in_spawn, player_id, spawn_sent>>

BotActionSent ==
    /\ mode = "bot"
    /\ pc = "sending"
    /\ SendActionIntent(chosen)
    /\ SetPreviousStateAction(env_current, chosen, out')
    /\ Autosave
    /\ pc' = "idle"
    /\ chosen' = "null"
    /\ UNCHANGED <<saveVars, lockVars, connVars, runVars, extVars>>
    /\ UNCHANGED <<mode, msg, nrecv, naccept, last_tick, last_in_spawn, spawn_sent,
                   env_current, env_previous, epsilon, agent_qtable, lastLearn,
                   inOrder, lastAccepted>>

\* ------------------------------------------------- main.py: BotConnection
MainDuplicate(f) ==
    /\ mode = "main"
    /\ Receive(f)
    /\ IsDuplicateMain(f.tick, last_tick)
    /\ Discard

MainAutoSpawn(f) ==
    /\ mode = "main"
    /\ Receive(f)
    /\ ~IsDuplicateMain(f.tick, last_tick)
    /\ f.inSpawn /\ ~last_in_spawn
    /\ choose_auto_spawn(Snapshot(f, naccept + 1)) # "null"
    /\ Accept(f)
    /\ player_id' = "assigned"
    /\ pc' = "auto_sending"
    /\ chosen' = "spawn"
    /\ saved' = FALSE
    /\ UNCHANGED <<mode, last_in_spawn, autosave_timer, spawn_sent, env_current,
                   env_previous, previous_state, previous_action, epsilon,
                   agent_qtable, lastLearn, useCount, pendingHanded>>

MainAutoSpawnSent ==
    /\ mode = "main"
    /\ pc = "auto_sending"
    /\ out' = Append(out, "spawn")
    /\ SetPreviousStateAction(Snapshot(msg, naccept), "spawn", out')
    /\ last_in_spawn' = TRUE
    /\ pc' = "idle"
    /\ chosen' = "null"
    /\ UNCHANGED <<saveVars, lockVars, connVars, runVars, extVars>>
    /\ UNCHANGED <<mode, msg, nrecv, naccept, last_tick, player_id, autosave_timer,
                   spawn_sent, env_current, env_previous, epsilon, agent_qtable,
                   lastLearn, saved, inOrder, lastAccepted>>

MainProcess(f) ==
    /\ mode = "main"
    /\ Receive(f)
    /\ ~IsDuplicateMain(f.tick, last_tick)
    /\ ~(f.inSpawn /\ ~last_in_spawn /\ choose_auto_spawn(Snapshot(f, naccept + 1)) # "null")
    /\ Accept(f)
    /\ last_in_spawn' = f.inSpawn
    /\ Decide(f, FALSE)
    /\ UNCHANGED <<mode, player_id, spawn_sent>>

MainActionSent ==
    /\ mode = "main"
    /\ pc = "sending"
    /\ SendActionIntent(chosen)
    /\ SetPreviousStateAction(env_current, chosen, out')
    /\ Autosave
    /\ pc' = "idle"
    /\ chosen' = "null"
    /\ UNCHANGED <<saveVars, lockVars, connVars, runVars, extVars>>
    /\ UNCHANGED <<mode, msg, nrecv, naccept, last_tick, last_in_spawn, spawn_sent,
                   env_current, env_previous, epsilon, agent_qtable, lastLearn,
                   inOrder, lastAccepted>>

\* ------------------------------------ lib/server_interface.py: ServerInterface
IfaceDuplicate(f) ==
    /\ mode = "iface"
    /\ Receive(f)
    /\ IsDuplicateMain(f.tick, last_tick)
    /\ Discard

\* The chosen action is "none": nothing is sent, the pair is recorded, the
\* table is saved.
IfaceProcessNone(f) ==
    LET s == Snapshot(f, naccept + 1)
    IN  /\ mode = "iface"
        /\ pc = "idle"
        /\ nrecv < MaxFrames
        /\ msg' = f
        /\ nrecv' = nrecv + 1
        /\ UNCHANGED <<saveVars, lockVars, connVars, runVars, extVars>>
        /\ ~IsDuplicateMain(f.tick, last_tick)
        /\ naccept' = naccept + 1
        /\ last_tick' = f.tick
        /\ inOrder' = InOrderAfter(f)
        /\ lastAccepted' = f
        /\ env_previous' = env_current
        /\ env_current' = s
        /\ IF TransitionReady(previous_state, previous_action)
           THEN lastLearn' = [from |-> previous_state.seq, to |-> s.seq,
                              action |-> previous_action]
           ELSE UNCHANGED lastLearn
        /\ \E fill \in BOOLEAN :
              agent_qtable' = BestActionTable(
                  LearnTable(agent_qtable, previous_state, previous_action), s, fill)
        /\ "none" \in Range(get_possible_actions(s))
        /\ SetPreviousStateAction(s, "none", <<>>)
        /\ saved' = TRUE
        /\ IF ~spawn_sent /\ f.tick = 1
           THEN spawn_sent' = TRUE /\ out' = <<"spawn">>
           ELSE spawn_sent' = spawn_sent /\ out' = <<>>
        /\ UNCHANGED <<mode, pc, last_in_spawn, player_id, autosave_timer, epsilon,
                       chosen>>

\* The chosen action is not "none": it goes to ws.send first.
IfaceProcessSend(f) ==
    LET s == Snapshot(f, naccept + 1)
    IN  /\ mode = "iface"
        /\ Receive(f)
        /\ ~IsDuplicateMain(f.tick, last_tick)
        /\ Accept(f)
        /\ env_previous' = env_current
        /\ env_current' = s
        /\ LearnHistory(previous_state, previous_action, s)
        /\ \E a \in Range(get_possible_actions(s)) \ {"none"}, fill \in BOOLEAN :
              /\ agent_qtable' = BestActionTable(
                     LearnTable(agent_qtable, previous_state, previous_action), s, fill)
              /\ chosen' = a
        /\ LET p == PendingWhileSending(previous_state, previous_action, s, chosen')
           IN  /\ previous_state' = p[1]
               /\ previous_action' = p[2]
               /\ pendingHanded' = IF p = <<previous_state, previous_action>>
                                    THEN pendingHanded
                                    ELSE chosen' \in Range(out')
        /\ pc' = "sending"
        /\ saved' = FALSE
        /\ UNCHANGED <<mode, last_in_spawn, player_id, autosave_timer, spawn_sent,
                       epsilon>>

IfaceActionSent ==
    /\ mode = "iface"
    /\ pc = "sending"
    /\ SetPreviousStateAction(env_current, chosen, Append(out, chosen))
    /\ saved' = TRUE
    /\ IF ~spawn_sent /\ msg.tick = 1
       THEN /\ spawn_sent' = TRUE
            /\ out' = out \o <<chosen, "spawn">>
       ELSE /\ spawn_sent' = spawn_sent
            /\ out' = Append(out, chosen)
    /\ pc' = "idle"
    /\ chosen' = "null"
    /\ UNCHANGED <<saveVars, lockVars, connVars, runVars, extVars>>
    /\ UNCHANGED <<mode, msg, nrecv, naccept, last_tick, last_in_spawn, player_id,
                   autosave_timer, env_current, env_previous, epsilon, agent_qtable,
                   lastLearn, inOrder, lastAccepted>>

\* ------------------------------------------- lib/qtable.py: two processes
Procs == {"P1", "P2"}

Other(p) == IF p = "P1" THEN "P2" ELSE "P1"

Pairs == {"k1", "k2"}

Vals == {-1} \cup (1..MaxVal)

Max2(a, b) == IF a >= b THEN a ELSE b

AbsentFile == [kind |-> "absent", data |-> EmptyFn]

\* The file between open("wb") and the close that writes the image out.
TornFile == [kind |-> "torn", data |-> EmptyFn]

TableFile(t) == [kind |-> "table", data |-> t]

PriorFiles == {AbsentFile} \cup {TableFile([k \in {"k1"} |-> v]) : v \in Vals}

\* The table of a process that has made at most one set_q_value call.
MutatedTables == {EmptyFn} \cup {[x \in {k} |-> v] : k \in Pairs, v \in Vals}

\* A merge that takes the value read from the file whatever the local one is.
OverwriteQTable(local, other) ==
    [k \in DOMAIN local \cup DOMAIN other |->
        IF k \in DOMAIN other THEN other[k] ELSE local[k]]

\* _merge_qtable: the larger of the local value, 0.0 when the entry is
\* missing, and the value read from the file.
MergeQTable(local, other) ==
    [k \in DOMAIN local \cup DOMAIN other |->
        IF k \in DOMAIN other
        THEN Max2(IF k \in DOMAIN local THEN local[k] ELSE 0, other[k])
        ELSE local[k]]

InSave(p) == spc[p] \in {"merge", "open", "lock", "dump", "unlock", "close"}

\* save, line 102: nothing to do for an empty table that was never written to.
SaveBegin(p) ==
    /\ spc[p] = "idle"
    /\ nsave[p] < MaxSaves
    /\ snap' = [snap EXCEPT ![p] = qmem[p]]
    /\ IF DOMAIN qmem[p] = {} /\ ~qdirty[p]
       THEN /\ nsave' = [nsave EXCEPT ![p] = @ + 1]
            /\ UNCHANGED <<spc, overlap>>
       ELSE /\ spc' = [spc EXCEPT ![p] = "merge"]
            /\ overlap' = (overlap \/ InSave(Other(p)))
            /\ UNCHANGED nsave
    /\ UNCHANGED <<qmem, qdirty, file, flock, file0, readTorn, crashed,
                   persisted, lostAll>>
    /\ UNCHANGED <<tickVars, lockVars, connVars, runVars, extVars>>

\* _load_and_merge: skipped when the file is absent; otherwise the file is read
\* under the advisory lock, which is released again before save goes on. An
\* image that does not decode is passed over.
LoadAndMerge(p) ==
    /\ spc[p] = "merge"
    /\ file.kind # "absent" => flock = "free"
    /\ qmem' = [qmem EXCEPT ![p] =
                   IF file.kind = "table" THEN MergeQTable(@, file.data) ELSE @]
    /\ readTorn' = (readTorn \/ file.kind = "torn")
    /\ spc' = [spc EXCEPT ![p] = "open"]
    /\ UNCHANGED <<qdirty, file, flock, nsave, snap, file0, overlap,
                   crashed, persisted, lostAll>>
    /\ UNCHANGED <<tickVars, lockVars, connVars, runVars, extVars>>

\* save, line 109: open("wb") creates or truncates the file; the advisory lock
\* is not held yet.
OpenWrite(p) ==
    /\ spc[p] = "open"
    /\ file' = TornFile
    /\ spc' = [spc EXCEPT ![p] = "lock"]
    /\ UNCHANGED <<qmem, qdirty, flock, nsave, snap, file0, overlap,
                   readTorn, crashed, persisted, lostAll>>
    /\ UNCHANGED <<tickVars, lockVars, connVars, runVars, extVars>>

\* save, line 110: flock(LOCK_EX) blocks while another process holds the lock.
AcquireFileLock(p) ==
    /\ spc[p] = "lock"
    /\ flock = "free"
    /\ flock' = p
    /\ spc' = [spc EXCEPT ![p] = "dump"]
    /\ UNCHANGED <<qmem, qdirty, file, nsave, snap, file0, overlap,
                   readTorn, crashed, persisted, lostAll>>
    /\ UNCHANGED <<tickVars, lockVars, connVars, runVars, extVars>>

\* save, lines 112-117: pickle.dump fills the buffer of the file object.
Dump(p) ==
    /\ spc[p] = "dump"
    /\ qdirty' = [qdirty EXCEPT ![p] = FALSE]
    /\ spc' = [spc EXCEPT ![p] = "unlock"]
    /\ UNCHANGED <<qmem, file, flock, nsave, snap, file0, overlap,
                   readTorn, crashed, persisted, lostAll>>
    /\ UNCHANGED <<tickVars, lockVars, connVars, runVars, extVars>>

\* save, lines 118-119.
ReleaseFileLock(p) ==
    /\ spc[p] = "unlock"
    /\ flock' = "free"
    /\ spc' = [spc EXCEPT ![p] = "close"]
    /\ UNCHANGED <<qmem, qdirty, file, nsave, snap, file0, overlap,
                   readTorn, crashed, persisted, lostAll>>
    /\ UNCHANGED <<tickVars, lockVars, connVars, runVars, extVars>>

\* save, end of the with block of line 109: closing the file writes the image.
CloseWrite(p) ==
    /\ spc[p] = "close"
    /\ file' = TableFile(qmem[p])
    /\ persisted' = (persisted \/ DOMAIN qmem[p] # {})
    /\ nsave' = [nsave EXCEPT ![p] = @ + 1]
    /\ spc' = [spc EXCEPT ![p] = "idle"]
    /\ UNCHANGED <<qmem, qdirty, flock, snap, file0, overlap, readTorn,
                   crashed, lostAll>>
    /\ UNCHANGED <<tickVars, lockVars, connVars, runVars, extVars>>

\* The process dies during save: its advisory lock is dropped and what it had
\* buffered is never written.
Crash(p) ==
    /\ InSave(p)
    /\ spc' = [spc EXCEPT ![p] = "crashed"]
    /\ flock' = IF flock = p THEN "free" ELSE flock
    /\ crashed' = TRUE
    /\ UNCHANGED <<qmem, qdirty, file, nsave, snap, file0, overlap,
                   readTorn, persisted, lostAll>>
    /\ UNCHANGED <<tickVars, lockVars, connVars, runVars, extVars>>

\* load in the restarted process: an absent file or an image that does not
\* decode gives an empty table.
Load(p) ==
    /\ spc[p] = "crashed"
    /\ file.kind # "absent" => flock = "free"
    /\ qmem' = [qmem EXCEPT ![p] = IF file.kind = "table" THEN file.data ELSE EmptyFn]
    /\ qdirty' = [qdirty EXCEPT ![p] = FALSE]
    /\ lostAll' = (lostAll \/ (file.kind = "torn" /\ persisted))
    /\ spc' = [spc EXCEPT ![p] = "idle"]
    /\ UNCHANGED <<file, flock, nsave, snap, file0, overlap, readTorn,
                   crashed, persisted>>
    /\ UNCHANGED <<tickVars, lockVars, connVars, runVars, extVars>>

SaveStartWith(f, m) ==
    /\ qmem = m
    /\ qdirty = [p \in Procs |-> DOMAIN m[p] # {}]
    /\ spc = [p \in Procs |-> "idle"]
    /\ file = f
    /\ flock = "free"
    /\ nsave = [p \in Procs |-> 0]
    /\ snap = [p \in Procs |-> EmptyFn]
    /\ file0 = f
    /\ overlap = FALSE
    /\ readTorn = FALSE
    /\ crashed = FALSE
    /\ persisted = (f.kind = "table")
    /\ lostAll = FALSE

SaveStart == SaveStartWith(AbsentFile, [p \in Procs |-> EmptyFn])

NextSave ==
    \/ \E p \in Procs : SaveBegin(p)
    \/ \E p \in Procs : LoadAndMerge(p)
    \/ \E p \in Procs : OpenWrite(p)
    \/ \E p \in Procs : AcquireFileLock(p)
    \/ \E p \in Procs : Dump(p)
    \/ \E p \in Procs : ReleaseFileLock(p)
    \/ \E p \in Procs : CloseWrite(p)

\* One process that may die during save and be started again.
NextCrash ==
    \/ SaveBegin("P1")
    \/ LoadAndMerge("P1")
    \/ OpenWrite("P1")
    \/ AcquireFileLock("P1")
    \/ Dump("P1")
    \/ ReleaseFileLock("P1")
    \/ CloseWrite("P1")
    \/ Crash("P1")
    \/ Load("P1")

\* ------------------------------- lib/qtable.py: the tasks of one process
Tasks == {"T1", "T2"}

TableOps ==
    {"get_q_value", "get_max_q_value", "get_state_actions", "set_q_value",
     "ensure_state_exists", "get_size", "save", "load"}

StateKeys == {"s1", "s2"}

\* An operation that awaits between taking QTable._lock and releasing it.
SuspendsInAnyBody(op) == TRUE

\* No statement between "async with await self.get_lock()" and the end of its
\* block awaits.
SuspendsInBody(op) == FALSE

\* The task is at a statement that reads or writes _local_qtable.
InCritical(t) == tpc[t] \in {"precheck", "reset", "body", "release"}

\* The event loop starts a task on one of the operations.
CallOp(t, op) ==
    /\ running = "none"
    /\ tpc[t] = "idle"
    /\ cancelledAt[t] = "no"
    /\ ncalls[t] < MaxCalls
    /\ ncalls' = [ncalls EXCEPT ![t] = @ + 1]
    /\ top' = [top EXCEPT ![t] = op]
    /\ tpc' = [tpc EXCEPT ![t] =
                  CASE op = "save" -> "precheck"
                    [] op = "load" -> "exists"
                    [] OTHER -> "acquire"]
    /\ running' = t
    /\ UNCHANGED <<lock_holder, ltable, ldirty, lfile>>
    /\ UNCHANGED cancelledAt
    /\ UNCHANGED <<tickVars, saveVars, connVars, runVars, extVars>>

\* save, line 102: _local_qtable and _dirty are read before the lock is taken.
SavePrecheck(t) ==
    /\ running = t
    /\ tpc[t] = "precheck"
    /\ IF ltable = {} /\ ~ldirty
       THEN tpc' = [tpc EXCEPT ![t] = "idle"] /\ running' = "none"
       ELSE tpc' = [tpc EXCEPT ![t] = "acquire"] /\ running' = t
    /\ UNCHANGED <<top, ncalls, lock_holder, ltable, ldirty, lfile>>
    /\ UNCHANGED cancelledAt
    /\ UNCHANGED <<tickVars, saveVars, connVars, runVars, extVars>>

\* load, line 54.
LoadExists(t) ==
    /\ running = t
    /\ tpc[t] = "exists"
    /\ tpc' = [tpc EXCEPT ![t] = IF lfile.exists THEN "acquire" ELSE "reset"]
    /\ UNCHANGED <<top, ncalls, lock_holder, running, ltable, ldirty, lfile>>
    /\ UNCHANGED cancelledAt
    /\ UNCHANGED <<tickVars, saveVars, connVars, runVars, extVars>>

\* load, lines 55-57: the table is replaced without the lock.
LoadReset(t) ==
    /\ running = t
    /\ tpc[t] = "reset"
    /\ ltable' = {}
    /\ tpc' = [tpc EXCEPT ![t] = "idle"]
    /\ running' = "none"
    /\ UNCHANGED <<top, ncalls, lock_holder, ldirty, lfile>>
    /\ UNCHANGED cancelledAt
    /\ UNCHANGED <<tickVars, saveVars, connVars, runVars, extVars>>

\* async with await self.get_lock(): a free lock is taken without suspending;
\* otherwise the task suspends until the lock is free.
AcquireLock(t) ==
    /\ \/ running = t /\ tpc[t] = "acquire"
       \/ running = "none" /\ tpc[t] = "waiting" /\ lock_holder = "free"
    /\ IF lock_holder = "free"
       THEN /\ lock_holder' = t
            /\ tpc' = [tpc EXCEPT ![t] = "body"]
            /\ running' = t
       ELSE /\ tpc' = [tpc EXCEPT ![t] = "waiting"]
            /\ running' = "none"
            /\ UNCHANGED lock_holder
    /\ UNCHANGED <<top, ncalls, ltable, ldirty, lfile>>
    /\ UNCHANGED cancelledAt
    /\ UNCHANGED <<tickVars, saveVars, connVars, runVars, extVars>>

\* The statements of the operation under the lock, on state key k.
Body(t, k) ==
    /\ running = t
    /\ tpc[t] = "body"
    /\ CASE top[t] = "set_q_value" ->
              ltable' = ltable \cup {k} /\ ldirty' = TRUE /\ UNCHANGED lfile
         [] top[t] = "ensure_state_exists" ->
              ltable' = ltable \cup {k} /\ UNCHANGED <<ldirty, lfile>>
         [] top[t] = "save" ->
              /\ ltable' = ltable \cup lfile.keys
              /\ lfile' = [exists |-> TRUE, keys |-> ltable']
              /\ ldirty' = FALSE
         [] top[t] = "load" ->
              ltable' = lfile.keys /\ ldirty' = FALSE /\ UNCHANGED lfile
         [] OTHER -> UNCHANGED <<ltable, ldirty, lfile>>
    /\ tpc' = [tpc EXCEPT ![t] = "release"]
    /\ running' = IF SuspendsInBody(top[t]) THEN "none" ELSE t
    /\ UNCHANGED <<top, ncalls, lock_holder>>
    /\ UNCHANGED cancelledAt
    /\ UNCHANGED <<tickVars, saveVars, connVars, runVars, extVars>>

\* The end of the async with block.
ReleaseLock(t) ==
    /\ running \in {t, "none"}
    /\ tpc[t] = "release"
    /\ lock_holder' = "free"
    /\ tpc' = [tpc EXCEPT ![t] = "idle"]
    /\ running' = "none"
    /\ UNCHANGED <<top, ncalls, ltable, ldirty, lfile>>
    /\ UNCHANGED cancelledAt
    /\ UNCHANGED <<tickVars, saveVars, connVars, runVars, extVars>>

\* A cancellation that may cut a task at any statement.
CancelAtAnyStatement(t) == TRUE

\* task.cancel() followed by a wait for the task (connection_handler.py, lines
\* 56-59): CancelledError is raised in the task where it is suspended at an
\* await, never between two statements that do not await.
CancelDelivered(t) == running # t

\* The task is cancelled: it leaves the operation it is in, the async with
\* block it is in releases the lock, and it is called no more.
Cancel(t) ==
    /\ running \in {"none", t}
    /\ CancelDelivered(t)
    /\ cancelledAt[t] = "no"
    /\ cancelledAt' = [cancelledAt EXCEPT ![t] = tpc[t]]
    /\ tpc' = [tpc EXCEPT ![t] = "idle"]
    /\ lock_holder' = IF lock_holder = t THEN "free" ELSE lock_holder
    /\ running' = "none"
    /\ UNCHANGED <<top, ncalls, ltable, ldirty, lfile>>
    /\ UNCHANGED <<tickVars, saveVars, connVars, runVars, extVars>>

LockStartWith(f) ==
    /\ tpc = [t \in Tasks |-> "idle"]
    /\ top = [t \in Tasks |-> "none"]
    /\ ncalls = [t \in Tasks |-> 0]
    /\ lock_holder = "free"
    /\ running = "none"
    /\ ltable = {}
    /\ ldirty = FALSE
    /\ lfile = f
    /\ cancelledAt = [t \in Tasks |-> "no"]

LockStart == LockStartWith([exists |-> FALSE, keys |-> {}])

NextLock ==
    \/ \E t \in Tasks, op \in TableOps : CallOp(t, op)
    \/ \E t \in Tasks : SavePrecheck(t)
    \/ \E t \in Tasks : LoadExists(t)
    \/ \E t \in Tasks : LoadReset(t)
    \/ \E t \in Tasks : AcquireLock(t)
    \/ \E t \in Tasks, k \in StateKeys : Body(t, k)
    \/ \E t \in Tasks : ReleaseLock(t)
    \/ \E t \in Tasks : Cancel(t)

\* ------------------------------- lib/connection_handler.py: run_connection
\* asyncio.gather that does not wait for its tasks.
GatherSkipped(g, d, x) == TRUE

\* run_connection, line 61: gather returns when every task but the first is done.
GatherComplete(g, d, x) == g = "done" /\ d = "done" /\ x \in {"none", "done"}

Returned == rcpc \in {"returned", "cleaned"}

\* The loop test of agent_loop and action_sender_loop.
LoopOrDone(next) == IF crunning THEN next ELSE "done"

\* receive_loop, lines 39-40: a message is processed; the state store signals
\* that a state is available.
ReceiveMessage ==
    /\ rpc = "active"
    /\ nmsgs < MaxMsgs
    /\ nmsgs' = nmsgs + 1
    /\ state_event' = TRUE
    /\ UNCHANGED <<crunning, rcpc, rpc, gpc, dpc, xpc, gcancel, dcancel, xcancel,
                   queue, lateStep, earlyCancel>>
    /\ UNCHANGED chanVars
    /\ UNCHANGED <<tickVars, saveVars, lockVars, runVars, extVars>>

\* receive_loop, lines 41-44: the connection closes or fails.
ReceiveEnd ==
    /\ rpc = "active"
    /\ rpc' = "done"
    /\ crunning' = FALSE
    /\ UNCHANGED <<rcpc, gpc, dpc, xpc, gcancel, dcancel, xcancel, state_event,
                   nmsgs, queue, lateStep, earlyCancel>>
    /\ UNCHANGED chanVars
    /\ UNCHANGED <<tickVars, saveVars, lockVars, runVars, extVars>>

\* agent_loop, lines 15-16: the task starts and waits for the first state.
AgentStart ==
    /\ gpc = "start"
    /\ ~gcancel
    /\ gpc' = IF state_event THEN LoopOrDone("iter") ELSE "wait"
    /\ UNCHANGED <<crunning, rcpc, rpc, dpc, xpc, gcancel, dcancel, xcancel,
                   state_event, nmsgs, queue, lateStep, earlyCancel>>
    /\ UNCHANGED chanVars
    /\ UNCHANGED <<tickVars, saveVars, lockVars, runVars, extVars>>

AgentWake ==
    /\ gpc = "wait"
    /\ ~gcancel
    /\ state_event
    /\ gpc' = LoopOrDone("iter")
    /\ UNCHANGED <<crunning, rcpc, rpc, dpc, xpc, gcancel, dcancel, xcancel,
                   state_event, nmsgs, queue, lateStep, earlyCancel>>
    /\ UNCHANGED chanVars
    /\ UNCHANGED <<tickVars, saveVars, lockVars, runVars, extVars>>

\* The action types best_action returns to agent_loop.
ActionTypes == {"attack", "none"}

\* An action, numbered by the decision that made it.
QueuedAction(n, ty) == [id |-> n, type |-> ty]

\* A put that never waits.
QueueAlwaysHasRoom(q) == TRUE

\* agent.do puts the action on env._action_queue; the put waits while the
\* queue holds MaxQueue actions.
QueueHasRoom(q) == Len(q) < MaxQueue

\* A put that places the action in front of the waiting ones.
QueuePutFirst(q, a) == <<a>> \o q

\* env._action_queue is first in, first out: put appends, get takes the head.
QueuePut(q, a) == Append(q, a)

\* agent_loop, lines 17-19: one decision, put on the action queue.
AgentIter ==
    /\ gpc = "iter"
    /\ ~gcancel
    /\ ndec < MaxActs
    /\ QueueHasRoom(queue)
    /\ \E ty \in ActionTypes : queue' = QueuePut(queue, QueuedAction(ndec + 1, ty))
    /\ ndec' = ndec + 1
    /\ decidedAt' = nmsgs
    /\ lateStep' = (lateStep \/ Returned)
    /\ gpc' = LoopOrDone("iter")
    /\ UNCHANGED <<crunning, rcpc, rpc, dpc, xpc, gcancel, dcancel, xcancel,
                   state_event, nmsgs, earlyCancel, sent_actions, leftover, gfailed,
                   dfailed>>
    /\ UNCHANGED <<tickVars, saveVars, lockVars, runVars, extVars>>

\* agent_loop, lines 17-19 and 22-23: best_action, do or on_agent_action
\* raises; the except clause encloses the while loop, so the task ends.
AgentIterRaises ==
    /\ gpc = "iter"
    /\ ~gcancel
    /\ ndec < MaxActs
    /\ gpc' = "done"
    /\ gfailed' = TRUE
    /\ UNCHANGED <<crunning, rcpc, rpc, dpc, xpc, gcancel, dcancel, xcancel,
                   state_event, nmsgs, queue, lateStep, earlyCancel, ndec,
                   decidedAt, sent_actions, leftover, dfailed>>
    /\ UNCHANGED <<tickVars, saveVars, lockVars, runVars, extVars>>

\* agent_loop, lines 20-21: CancelledError ends the task at its next resumption.
AgentCancelled ==
    /\ gcancel
    /\ gpc # "done"
    /\ gpc' = "done"
    /\ UNCHANGED <<crunning, rcpc, rpc, dpc, xpc, gcancel, dcancel, xcancel,
                   state_event, nmsgs, queue, lateStep, earlyCancel>>
    /\ UNCHANGED chanVars
    /\ UNCHANGED <<tickVars, saveVars, lockVars, runVars, extVars>>

\* action_sender_loop, line 27.
SenderStart ==
    /\ dpc = "start"
    /\ ~dcancel
    /\ dpc' = LoopOrDone("get")
    /\ UNCHANGED <<crunning, rcpc, rpc, gpc, xpc, gcancel, dcancel, xcancel,
                   state_event, nmsgs, queue, lateStep, earlyCancel>>
    /\ UNCHANGED chanVars
    /\ UNCHANGED <<tickVars, saveVars, lockVars, runVars, extVars>>

\* action_sender_loop, lines 29-30: send_action is called for every action
\* whose type is not NONE.
SentAfter(h, a) == IF a.type # "none" THEN Append(h, a.id) ELSE h

\* action_sender_loop, lines 28-31: one action is taken off the queue and
\* sent.
SenderDispatch ==
    /\ dpc = "get"
    /\ ~dcancel
    /\ queue # <<>>
    /\ queue' = Tail(queue)
    /\ sent_actions' = SentAfter(sent_actions, Head(queue))
    /\ lateStep' = (lateStep \/ Returned)
    /\ dpc' = LoopOrDone("get")
    /\ UNCHANGED <<crunning, rcpc, rpc, gpc, xpc, gcancel, dcancel, xcancel,
                   state_event, nmsgs, earlyCancel, ndec, decidedAt, leftover,
                   gfailed, dfailed>>
    /\ UNCHANGED <<tickVars, saveVars, lockVars, runVars, extVars>>

\* action_sender_loop, lines 28-30 and 34-35: send_action raises for the
\* action taken off the queue; the except clause encloses the while loop, so
\* the task ends.
SenderSendRaises ==
    /\ dpc = "get"
    /\ ~dcancel
    /\ queue # <<>>
    /\ Head(queue).type # "none"
    /\ queue' = Tail(queue)
    /\ dpc' = "done"
    /\ dfailed' = TRUE
    /\ UNCHANGED <<crunning, rcpc, rpc, gpc, xpc, gcancel, dcancel, xcancel,
                   state_event, nmsgs, lateStep, earlyCancel, ndec, decidedAt,
                   sent_actions, leftover, gfailed>>
    /\ UNCHANGED <<tickVars, saveVars, lockVars, runVars, extVars>>

\* action_sender_loop, lines 32-33.
SenderCancelled ==
    /\ dcancel
    /\ dpc # "done"
    /\ dpc' = "done"
    /\ UNCHANGED <<crunning, rcpc, rpc, gpc, xpc, gcancel, dcancel, xcancel,
                   state_event, nmsgs, queue, lateStep, earlyCancel>>
    /\ UNCHANGED chanVars
    /\ UNCHANGED <<tickVars, saveVars, lockVars, runVars, extVars>>

\* The additional task ends, by itself or because it was cancelled.
ExtraEnd ==
    /\ xpc = "active"
    /\ xpc' = "done"
    /\ UNCHANGED <<crunning, rcpc, rpc, gpc, dpc, gcancel, dcancel, xcancel,
                   state_event, nmsgs, queue, lateStep, earlyCancel>>
    /\ UNCHANGED chanVars
    /\ UNCHANGED <<tickVars, saveVars, lockVars, runVars, extVars>>

\* run_connection, lines 55-59: once receive_loop is done, running is cleared
\* and every other task that is not done is cancelled.
RunCancelTasks ==
    /\ rcpc = "await_receive"
    /\ rpc = "done"
    /\ crunning' = FALSE
    /\ gcancel' = (gpc # "done")
    /\ dcancel' = (dpc # "done")
    /\ xcancel' = (xpc = "active")
    /\ earlyCancel' = (earlyCancel \/ rpc # "done")
    /\ rcpc' = "gather"
    /\ UNCHANGED <<rpc, gpc, dpc, xpc, state_event, nmsgs, queue, lateStep>>
    /\ UNCHANGED chanVars
    /\ UNCHANGED <<tickVars, saveVars, lockVars, runVars, extVars>>

\* run_connection, line 61.
RunReturn ==
    /\ rcpc = "gather"
    /\ GatherComplete(gpc, dpc, xpc)
    /\ rcpc' = "returned"
    /\ UNCHANGED <<crunning, rpc, gpc, dpc, xpc, gcancel, dcancel, xcancel,
                   state_event, nmsgs, queue, lateStep, earlyCancel>>
    /\ UNCHANGED chanVars
    /\ UNCHANGED <<tickVars, saveVars, lockVars, runVars, extVars>>

\* The caller awaits cleanup once run_connection has returned.
Cleanup ==
    /\ rcpc = "returned"
    /\ rcpc' = "cleaned"
    /\ UNCHANGED <<crunning, rpc, gpc, dpc, xpc, gcancel, dcancel, xcancel,
                   state_event, nmsgs, queue, lateStep, earlyCancel>>
    /\ UNCHANGED chanVars
    /\ UNCHANGED <<tickVars, saveVars, lockVars, runVars, extVars>>

\* run_connection, lines 46-53: the queue is env._action_queue, held by the
\* handler's env (line 10); run_connection neither replaces nor empties it.
QueueKept(q) == q

\* The identifiers of the queued actions.
QueuedIds(q) == {q[i].id : i \in 1..Len(q)}

\* run_connection, lines 46-53, called again on the same handler for the next
\* websocket: new tasks are created; running is what the subclass has set.
RunConnectionAgain ==
    /\ rcpc = "cleaned"
    /\ Len(leftover) < MaxRestarts
    /\ \E r \in BOOLEAN : crunning' = r
    /\ rcpc' = "await_receive"
    /\ rpc' = "active"
    /\ gpc' = "start"
    /\ dpc' = "start"
    /\ xpc' = IF xpc = "none" THEN "none" ELSE "active"
    /\ gcancel' = FALSE
    /\ dcancel' = FALSE
    /\ xcancel' = FALSE
    /\ queue' = QueueKept(queue)
    /\ leftover' = Append(leftover, QueuedIds(queue))
    /\ UNCHANGED <<state_event, nmsgs, lateStep, earlyCancel, ndec, decidedAt,
                   sent_actions, gfailed, dfailed>>
    /\ UNCHANGED <<tickVars, saveVars, lockVars, runVars, extVars>>

\* The state once run_connection has created its tasks. The subclass decides
\* whether running is set and whether an additional task is passed.
ConnStartWith(r, x) ==
    /\ crunning = r
    /\ rcpc = "await_receive"
    /\ rpc = "active"
    /\ gpc = "start"
    /\ dpc = "start"
    /\ xpc = x
    /\ gcancel = FALSE
    /\ dcancel = FALSE
    /\ xcancel = FALSE
    /\ state_event = FALSE
    /\ nmsgs = 0
    /\ queue = <<>>
    /\ lateStep = FALSE
    /\ earlyCancel = FALSE
    /\ ndec = 0
    /\ decidedAt = 0
    /\ sent_actions = <<>>
    /\ leftover = <<>>
    /\ gfailed = FALSE
    /\ dfailed = FALSE

ConnStart == ConnStartWith(FALSE, "none")

NextConn ==
    \/ ReceiveMessage
    \/ ReceiveEnd
    \/ AgentStart
    \/ AgentWake
    \/ AgentIter
    \/ AgentIterRaises
    \/ AgentCancelled
    \/ SenderStart
    \/ SenderDispatch
    \/ SenderSendRaises
    \/ SenderCancelled
    \/ ExtraEnd
    \/ RunCancelTasks
    \/ RunReturn
    \/ Cleanup

\* ----------------------------- lib/bot_connection.py, main.py: run
\* The reconnect loop of BotConnection.run. backoff is counted in halves of a
\* second: BackoffInit is 0.5 s, BackoffCap is 10.0 s. Frames of type 'start',
\* frames of unknown type and undecodable messages change nothing and are
\* left out.
RunFrames == {f \in Frames : f.tick <= MaxRunTick /\ ~f.map}

\* line 396: min(backoff * 2, 10.0)
NextBackoff(b) == IF b * 2 < BackoffCap THEN b * 2 ELSE BackoffCap

\* A finally clause without the save.
SaveSkipped(n) == n

\* line 399: agent.save() in the finally clause.
SaveAtSessionEnd(n) == n + 1

\* lines 345-354: the loop begins its next iteration once the sleep is over;
\* the fields of the connection are reset, those of the agent are not.
RunLoopStart ==
    /\ run_pc = "sleep"
    /\ nsess < MaxSessions
    /\ run_pc' = "connect"
    /\ nsess' = nsess + 1
    /\ player_id' = "null"
    /\ current_game_id' = 0
    /\ last_tick' = NoTick
    /\ last_in_spawn' = FALSE
    /\ autosave_timer' = 0
    /\ established' = FALSE
    /\ finalSaves' = 0
    /\ sessFirst' = naccept + 1
    /\ endedBy' = "none"
    /\ lastAccepted' = NoFrame
    /\ UNCHANGED <<backoff, consecFails, ngames>>
    /\ UNCHANGED <<mode, pc, msg, nrecv, naccept, spawn_sent, env_current,
                   env_previous, previous_state, previous_action, epsilon,
                   agent_qtable, chosen, out, lastLearn, useCount, saved,
                   inOrder, pendingHanded>>
    /\ UNCHANGED <<saveVars, lockVars, connVars, extVars>>

\* lines 358-365: the connection is made and the hello frame is sent.
RunConnect ==
    /\ run_pc = "connect"
    /\ run_pc' = "open"
    /\ established' = TRUE
    /\ UNCHANGED <<backoff, nsess, consecFails, current_game_id, ngames,
                   finalSaves, sessFirst, endedBy>>
    /\ UNCHANGED <<tickVars, saveVars, lockVars, connVars, extVars>>

\* The except and finally clauses, lines 394-418: the backoff doubles up to the
\* cap, the table is saved, the loop sleeps.
RunFailed ==
    /\ backoff' = NextBackoff(backoff)
    /\ consecFails' = consecFails + 1
    /\ finalSaves' = SaveAtSessionEnd(finalSaves)
    /\ run_pc' = "sleep"

\* line 358: websockets.connect raises.
RunConnectFails ==
    /\ run_pc = "connect"
    /\ RunFailed
    /\ endedBy' = "connect"
    /\ UNCHANGED <<nsess, established, current_game_id, ngames, sessFirst>>
    /\ UNCHANGED <<tickVars, saveVars, lockVars, connVars, extVars>>

\* lines 374-379: a 'created' frame announces a game.
RunCreated ==
    /\ run_pc = "open"
    /\ pc = "idle"
    /\ ngames < MaxGames
    /\ ngames' = ngames + 1
    /\ current_game_id' = ngames + 1
    /\ UNCHANGED <<run_pc, backoff, nsess, established, consecFails, finalSaves,
                   sessFirst, endedBy>>
    /\ UNCHANGED <<tickVars, saveVars, lockVars, connVars, extVars>>

\* line 367 and the finally clause, lines 397-418: the connection is closed
\* cleanly, the iteration of the messages ends without an exception.
RunClose ==
    /\ run_pc = "open"
    /\ pc = "idle"
    /\ consecFails' = 0
    /\ finalSaves' = SaveAtSessionEnd(finalSaves)
    /\ run_pc' = "sleep"
    /\ endedBy' = "closed"
    /\ UNCHANGED <<backoff, nsess, established, current_game_id, ngames,
                   sessFirst>>
    /\ UNCHANGED <<tickVars, saveVars, lockVars, connVars, extVars>>

\* line 367: the iteration of the messages raises (the connection is lost).
RunError ==
    /\ run_pc = "open"
    /\ pc = "idle"
    /\ RunFailed
    /\ endedBy' = "lost"
    /\ UNCHANGED <<nsess, established, current_game_id, ngames, sessFirst>>
    /\ UNCHANGED <<tickVars, saveVars, lockVars, connVars, extVars>>

\* lines 368-372: a message that json.loads decodes to a value that is not an
\* object (a list, a number, a string, null). state.get raises AttributeError
\* outside the try of lines 368-371; the exception leaves the iteration of the
\* messages and is caught at line 394.
RunFrameNotObject ==
    /\ run_pc = "open"
    /\ pc = "idle"
    /\ RunFailed
    /\ endedBy' = "frame"
    /\ UNCHANGED <<nsess, established, current_game_id, ngames, sessFirst>>
    /\ UNCHANGED <<tickVars, saveVars, lockVars, connVars, extVars>>

\* The reconnect loop at rest: one connection, open throughout.
RunStartWith(p, e) ==
    /\ run_pc = p
    /\ backoff = BackoffInit
    /\ nsess = 1
    /\ established = e
    /\ consecFails = 0
    /\ current_game_id = 0
    /\ ngames = 0
    /\ finalSaves = 0
    /\ sessFirst = 1
    /\ endedBy = "none"

RunStart == RunStartWith("open", TRUE)

NextReconnect ==
    \/ RunLoopStart
    \/ RunConnect
    \/ RunConnectFails
    \/ RunCreated
    \/ RunClose
    \/ RunError
    \/ RunFrameNotObject

NextRun ==
    \/ nsess < MaxRunSessions /\ RunLoopStart
    \/ RunConnect
    \/ RunConnectFails
    \/ RunCreated
    \/ RunClose
    \/ RunError
    \/ RunFrameNotObject
    \/ \E f \in RunFrames : nrecv < MaxRunFrames /\ BotDuplicate(f)
    \/ \E f \in RunFrames : nrecv < MaxRunFrames /\ BotSpawnNoLocation(f)
    \/ \E f \in RunFrames : nrecv < MaxRunFrames /\ BotAutoSpawn(f)
    \/ BotAutoSpawnSent
    \/ \E f \in RunFrames : nrecv < MaxRunFrames /\ BotProcess(f)
    \/ BotActionSent
    \/ \E f \in RunFrames : nrecv < MaxRunFrames /\ MainDuplicate(f)
    \/ \E f \in RunFrames : nrecv < MaxRunFrames /\ MainAutoSpawn(f)
    \/ MainAutoSpawnSent
    \/ \E f \in RunFrames : nrecv < MaxRunFrames /\ MainProcess(f)
    \/ MainActionSent

\* --------------------------------------- lib/qtable.py: table operations
\* One QTable object and its file, one operation at a time. A table is a
\* function from state keys to rows, a row a function from action keys to
\* values. Decoded data that is not a table of this shape is not modelled.
TKeys == {"s1", "s2"}

TActs == {"a1", "a2"}

QVals == 0..MaxQ

NoFile == [kind |-> "absent", data |-> EmptyFn]

BadFile == [kind |-> "undecodable", data |-> EmptyFn]

\* An image without the states that have no action yet.
ImageOfRows(t) ==
    [kind |-> "table", data |-> [k \in {x \in DOMAIN t : t[x] # EmptyFn} |-> t[k]]]

\* pickle.dump(self._local_qtable, f), line 112: the whole table.
ImageFile(t) == [kind |-> "table", data |-> t]

RowOf(t, s) == IF s \in DOMAIN t THEN t[s] ELSE EmptyFn

\* A set_q_value that forgets the other actions of the state.
set_q_value_alone(t, s, a, v) ==
    [k \in (DOMAIN t) \cup {s} |-> IF k = s THEN [x \in {a} |-> v] ELSE t[k]]

\* set_q_value, lines 145-147.
set_q_value(t, s, a, v) ==
    LET row == RowOf(t, s)
        new == [x \in (DOMAIN row) \cup {a} |-> IF x = a THEN v ELSE row[x]]
    IN  [k \in (DOMAIN t) \cup {s} |-> IF k = s THEN new ELSE t[k]]

\* An ensure_state_exists that writes 0.0 over the actions it is given.
ensure_state_zeroed(t, s, acts) ==
    LET row == RowOf(t, s)
        new == [x \in (DOMAIN row) \cup acts |-> IF x \in acts THEN 0 ELSE row[x]]
    IN  [k \in (DOMAIN t) \cup {s} |-> IF k = s THEN new ELSE t[k]]

\* ensure_state_exists, lines 152-161.
ensure_state_exists(t, s, acts) ==
    LET row == RowOf(t, s)
        new == [x \in (DOMAIN row) \cup acts |->
                   IF x \in DOMAIN row THEN row[x] ELSE 0]
    IN  [k \in (DOMAIN t) \cup {s} |-> IF k = s THEN new ELSE t[k]]

\* get_q_value, lines 125-127.
get_q_value(t, s, a) ==
    IF s \notin DOMAIN t THEN 0
    ELSE IF a \in DOMAIN t[s] THEN t[s][a] ELSE 0

\* A merge that takes the decoded table as it is.
merge_takes_other(t, o) == o

\* _merge_qtable, lines 78-83.
merge_qtable(t, o) ==
    [k \in (DOMAIN t) \cup (DOMAIN o) |->
        IF k \notin DOMAIN o THEN t[k]
        ELSE LET row == RowOf(t, k)
             IN  [a \in (DOMAIN row) \cup (DOMAIN o[k]) |->
                    IF a \notin DOMAIN o[k] THEN row[a]
                    ELSE Max2(IF a \in DOMAIN row THEN row[a] ELSE 0, o[k][a])]]

\* _load_and_merge, lines 86-99: the table after it when open succeeds; an
\* undecodable file is passed over.
load_and_merge(t, f) ==
    IF f.kind = "table" THEN merge_qtable(t, f.data) ELSE t

\* A save whose failures reach the caller.
SaveReraises(failed) == failed

\* save, lines 106 and 120-121: except Exception encloses the body.
SaveRaises(failed) == FALSE

\* A load that keeps the table when the file cannot be decoded.
LoadKeeps(t) == t

\* load, lines 56 and 75: the table of a fresh start.
LoadFresh(t) == EmptyFn

NoWrite == [key |-> "", act |-> "", val |-> 0]

\* wrote holds the arguments of a set_q_value, NoWrite for the other calls.
LastOp(o, res, r) == [op |-> o, out |-> res, raised |-> r, wrote |-> NoWrite]

\* One more operation is called.
TabCall ==
    /\ tops < MaxTabOps
    /\ tops' = tops + 1
    /\ UNCHANGED tfile0

TabSetQValue(s, a, v) ==
    /\ TabCall
    /\ tq' = set_q_value(tq, s, a, v)
    /\ tdirty' = TRUE
    /\ tlast' = [LastOp("set", "ok", FALSE) EXCEPT
                     !.wrote = [key |-> s, act |-> a, val |-> v]]
    /\ UNCHANGED tfile
    /\ UNCHANGED <<tickVars, saveVars, lockVars, connVars, runVars, learnVars, funVars>>

TabEnsureStateExists(s, acts) ==
    /\ TabCall
    /\ tq' = ensure_state_exists(tq, s, acts)
    /\ tlast' = LastOp("ensure", "ok", FALSE)
    /\ UNCHANGED <<tdirty, tfile>>
    /\ UNCHANGED <<tickVars, saveVars, lockVars, connVars, runVars, learnVars, funVars>>

\* get_q_value, get_state_actions, get_max_q_value and get_size read the table.
TabRead(s, a) ==
    /\ TabCall
    /\ tlast' = LastOp("read", "ok", FALSE)
    /\ UNCHANGED <<tq, tdirty, tfile>>
    /\ UNCHANGED <<tickVars, saveVars, lockVars, connVars, runVars, learnVars, funVars>>

\* save, lines 102-103: nothing to write.
TabSaveSkipped ==
    /\ TabCall
    /\ tq = EmptyFn /\ ~tdirty
    /\ tlast' = LastOp("save", "skipped", FALSE)
    /\ UNCHANGED <<tq, tdirty, tfile>>
    /\ UNCHANGED <<tickVars, saveVars, lockVars, connVars, runVars, learnVars, funVars>>

\* save, lines 105-119: merge and write both succeed.
TabSave ==
    /\ TabCall
    /\ ~(tq = EmptyFn /\ ~tdirty)
    /\ tq' = load_and_merge(tq, tfile)
    /\ tfile' = ImageFile(tq')
    /\ tdirty' = FALSE
    /\ tlast' = LastOp("save", "ok", FALSE)
    /\ UNCHANGED <<tickVars, saveVars, lockVars, connVars, runVars, learnVars, funVars>>

\* save, lines 107 and 89: the file exists and cannot be opened for reading;
\* the exception leaves _load_and_merge and nothing is written.
TabSaveReadFails ==
    /\ TabCall
    /\ ~(tq = EmptyFn /\ ~tdirty)
    /\ tfile.kind # "absent"
    /\ tlast' = LastOp("save", "read_failed", SaveRaises(TRUE))
    /\ UNCHANGED <<tq, tdirty, tfile>>
    /\ UNCHANGED <<tickVars, saveVars, lockVars, connVars, runVars, learnVars, funVars>>

\* save, lines 109-112: the file cannot be opened for writing (it stays as it
\* is), or pickle.dump fails after open has truncated it.
TabSaveWriteFails(truncated) ==
    /\ TabCall
    /\ ~(tq = EmptyFn /\ ~tdirty)
    /\ tq' = load_and_merge(tq, tfile)
    /\ tfile' = IF truncated THEN BadFile ELSE tfile
    /\ tlast' = LastOp("save", "write_failed", SaveRaises(TRUE))
    /\ UNCHANGED tdirty
    /\ UNCHANGED <<tickVars, saveVars, lockVars, connVars, runVars, learnVars, funVars>>

\* load, lines 54-57: no file.
TabLoadAbsent ==
    /\ TabCall
    /\ tfile.kind = "absent"
    /\ tq' = LoadFresh(tq)
    /\ tlast' = LastOp("load", "absent", FALSE)
    /\ UNCHANGED <<tdirty, tfile>>
    /\ UNCHANGED <<tickVars, saveVars, lockVars, connVars, runVars, learnVars, funVars>>

\* load, lines 59-72: the file is decoded.
TabLoad ==
    /\ TabCall
    /\ tfile.kind = "table"
    /\ tq' = tfile.data
    /\ tdirty' = FALSE
    /\ tlast' = LastOp("load", "ok", FALSE)
    /\ UNCHANGED tfile
    /\ UNCHANGED <<tickVars, saveVars, lockVars, connVars, runVars, learnVars, funVars>>

\* load, lines 61-64 and 73-75: open or pickle.load raises.
TabLoadFails ==
    /\ TabCall
    /\ tfile.kind # "absent"
    /\ tq' = LoadFresh(tq)
    /\ tlast' = LastOp("load", "failed", FALSE)
    /\ UNCHANGED <<tdirty, tfile>>
    /\ UNCHANGED <<tickVars, saveVars, lockVars, connVars, runVars, learnVars, funVars>>

\* The process ends and a new one starts on the same file: a new QTable
\* object, lines 17-23.
TabRestart ==
    /\ tlast.op # "restart"
    /\ tq' = EmptyFn
    /\ tdirty' = FALSE
    /\ tlast' = LastOp("restart", "ok", FALSE)
    /\ UNCHANGED <<tfile, tops, tfile0>>
    /\ UNCHANGED <<tickVars, saveVars, lockVars, connVars, runVars, learnVars, funVars>>

\* The files a process may find when it starts.
TabPriorFiles ==
    {NoFile, BadFile, ImageFile([k \in {"s1"} |-> [a \in {"a1"} |-> MaxQ]]),
     ImageFile([k \in {"s2"} |-> [a \in {"a2"} |-> -MaxQ]])}

TabStartWith(f) ==
    /\ tq = EmptyFn
    /\ tdirty = FALSE
    /\ tfile = f
    /\ tlast = LastOp("none", "ok", FALSE)
    /\ tops = 0
    /\ tfile0 = f

TabStart == TabStartWith(NoFile)

NextTable ==
    \/ \E s \in TKeys, a \in TActs, v \in QVals : TabSetQValue(s, a, v)
    \/ \E s \in TKeys, acts \in SUBSET TActs : TabEnsureStateExists(s, acts)
    \/ \E s \in TKeys, a \in TActs : TabRead(s, a)
    \/ TabSaveSkipped
    \/ TabSave
    \/ TabSaveReadFails
    \/ \E truncated \in BOOLEAN : TabSaveWriteFails(truncated)
    \/ TabLoadAbsent
    \/ TabLoad
    \/ TabLoadFails
    \/ TabRestart

\* ----------------------- lib/utils.py, main.py: the learning functions
\* agent.qtable is a dict of dicts, and dicts keep insertion order: a table is
\* a sequence of [key, row], a row a sequence of [act, val]. A state key
\* carries the two features that differ between the keys of the model; ok is
\* FALSE for a key _key_to_vector cannot turn into a vector (a key that is
\* not a string, a number field float() rejects). A raw state is identified
\* with its key. Values are in thousandths: Unit is 1.0.
Unit == 1000

Alpha == 100

Gamma == 950

LRewards == {0, 10 * Unit}

LKeys ==
    [spawn : BOOLEAN, empty : {0, 1}, ok : {TRUE}]
        \cup {[spawn |-> FALSE, empty |-> 0, ok |-> FALSE]}

NoneKey == [spawn |-> FALSE, empty |-> -1, ok |-> FALSE]

LActs == {"a", "b"}

\* possible_actions: the lists of distinct actions.
LActLists == {<<"a">>, <<"b">>, <<"a", "b">>, <<"b", "a">>}

Implementations == {"utils", "main"}

SeqRange(sq) == {sq[i] : i \in 1..Len(sq)}

HasKey(q, k) == \E i \in 1..Len(q) : q[i].key = k

RowAt(q, k) == q[CHOOSE i \in 1..Len(q) : q[i].key = k].row

\* qtable[k] = row: an existing key keeps its place, a new key goes last.
PutRow(q, k, row) ==
    IF HasKey(q, k)
    THEN [i \in 1..Len(q) |-> IF q[i].key = k THEN [key |-> k, row |-> row] ELSE q[i]]
    ELSE Append(q, [key |-> k, row |-> row])

RowHas(row, a) == \E i \in 1..Len(row) : row[i].act = a

\* row.get(a, 0.0)
RowGet(row, a) ==
    IF RowHas(row, a)
    THEN row[CHOOSE i \in 1..Len(row) : row[i].act = a].val
    ELSE 0

\* row[a] = v
RowSet(row, a, v) ==
    IF RowHas(row, a)
    THEN [i \in 1..Len(row) |-> IF row[i].act = a THEN [act |-> a, val |-> v] ELSE row[i]]
    ELSE Append(row, [act |-> a, val |-> v])

\* max(row.values())
RowMax(row) ==
    LET vals == {row[i].val : i \in 1..Len(row)}
    IN  CHOOSE v \in vals : \A w \in vals : w <= v

\* Loops that start every listed action at 1.0.
AddMissingOptimistic(row, acts) ==
    row \o [i \in 1..Len(acts) |-> [act |-> acts[i], val |-> Unit]]

\* The loops that give every listed action missing from the row the value 0.0.
RECURSIVE AddMissing(_, _)
AddMissing(row, acts) ==
    IF acts = <<>> THEN row
    ELSE AddMissing(IF RowHas(row, Head(acts)) THEN row
                    ELSE Append(row, [act |-> Head(acts), val |-> 0]),
                    Tail(acts))

\* max(valid_q_actions, key=...) returns the first of the maximal items.
FirstMax(items) ==
    LET m == RowMax(items)
        i == CHOOSE j \in 1..Len(items) :
                 items[j].val = m /\ \A h \in 1..(j - 1) : items[h].val # m
    IN  items[i].act

\* _key_to_vector and _state_to_vector on the two features.
KeyVector(k) == <<IF k.spawn THEN 1 ELSE 0, k.empty>>

\* The square of the distance; sqrt keeps the order of the sums of squares.
Dist2(u, v) == (u[1] - v[1]) * (u[1] - v[1]) + (u[2] - v[2]) * (u[2] - v[2])

\* A scan that lets a later key at the same distance win.
IsCloserOrEqual(d, best_key, best_dist) == best_key = NoneKey \/ d <= best_dist

\* lines 212 and 231: d < best_dist, best_dist starting at infinity.
IsCloser(d, best_key, best_dist) == best_key = NoneKey \/ d < best_dist

\* The for loop of the two lookups, lines 208-215 and 227-234.
RECURSIVE ClosestScan(_, _, _, _, _)
ClosestScan(q, target, i, best_key, best_dist) ==
    IF i > Len(q) THEN best_key
    ELSE IF ~q[i].key.ok THEN ClosestScan(q, target, i + 1, best_key, best_dist)
    ELSE LET d == Dist2(target, KeyVector(q[i].key))
         IN  IF IsCloser(d, best_key, best_dist)
             THEN ClosestScan(q, target, i + 1, q[i].key, d)
             ELSE ClosestScan(q, target, i + 1, best_key, best_dist)

find_closest_state_key_by_state(q, st) ==
    IF q = <<>> THEN NoneKey
    ELSE IF ~st.ok THEN NoneKey
    ELSE ClosestScan(q, KeyVector(st), 1, NoneKey, 0)

find_closest_state_by_key(q, k) ==
    IF HasKey(q, k) THEN k
    ELSE IF ~k.ok THEN NoneKey
    ELSE ClosestScan(q, KeyVector(k), 1, NoneKey, 0)

\* lib/utils.py, get_q_value.
utils_get_q_value(q, k, a) ==
    IF HasKey(q, k) THEN RowGet(RowAt(q, k), a)
    ELSE LET closest == find_closest_state_by_key(q, k)
         IN  IF closest # NoneKey /\ HasKey(q, closest)
             THEN RowGet(RowAt(q, closest), a)
             ELSE 0

\* main.py, Agent.get_q_value.
main_get_q_value(q, k, a) ==
    IF ~HasKey(q, k) THEN 0 ELSE RowGet(RowAt(q, k), a)

\* alpha * (reward + gamma * max_next_q - current_q)
Delta(reward, max_next_q, current_q) ==
    (Alpha * (reward + (Gamma * max_next_q) \div Unit - current_q)) \div Unit

\* lib/utils.py, update.
utils_update(q, pk, pa, ck, reward) ==
    LET current_q == utils_get_q_value(q, pk, pa)
        near == find_closest_state_by_key(q, ck)
        max_next_q ==
            IF HasKey(q, ck) /\ RowAt(q, ck) # <<>> THEN RowMax(RowAt(q, ck))
            ELSE IF near # NoneKey /\ HasKey(q, near) /\ RowAt(q, near) # <<>>
                 THEN RowMax(RowAt(q, near))
                 ELSE 0
        closest == find_closest_state_by_key(q, pk)
        base == IF HasKey(q, pk) THEN q
                ELSE IF closest # NoneKey /\ HasKey(q, closest)
                     THEN PutRow(q, pk, RowAt(q, closest))
                     ELSE PutRow(q, pk, <<>>)
    IN  PutRow(base, pk,
               RowSet(RowAt(base, pk), pa,
                      current_q + Delta(reward, max_next_q, current_q)))

\* main.py, Agent.update.
main_update(q, pk, pa, ck, reward) ==
    LET current_q == main_get_q_value(q, pk, pa)
        max_next_q ==
            IF HasKey(q, ck) /\ RowAt(q, ck) # <<>> THEN RowMax(RowAt(q, ck))
            ELSE 0
        base == IF HasKey(q, pk) THEN q ELSE PutRow(q, pk, <<>>)
    IN  PutRow(base, pk,
               RowSet(RowAt(base, pk), pa,
                      current_q + Delta(reward, max_next_q, current_q)))

\* lib/utils.py, best_action, lines 119-132: the row of a state not seen
\* before is a copy of the row of the closest state.
utils_seen(q, st, acts) ==
    IF HasKey(q, st) THEN q
    ELSE LET closest == find_closest_state_key_by_state(q, st)
             row == IF closest # NoneKey /\ HasKey(q, closest)
                    THEN RowAt(q, closest) ELSE <<>>
         IN  PutRow(q, st, AddMissing(row, acts))

\* main.py, Agent.best_action, lines 280-284.
main_seen(q, st, acts) ==
    IF HasKey(q, st) THEN q ELSE PutRow(q, st, AddMissing(<<>>, acts))

\* The table once the greedy branch has added the missing actions.
greedy_table(q, st, acts) == PutRow(q, st, AddMissing(RowAt(q, st), acts))

\* The greedy branch of best_action, the same in both files: the items of the
\* row, in the order of the row, that are possible actions; the first of
\* the maximal ones.
greedy_action(q, st, acts) ==
    FirstMax(SelectSeq(RowAt(q, st), LAMBDA it : it.act \in SeqRange(acts)))

Result(o, k, a, acts, ck, r, x, rk, ra) ==
    [op |-> o, key |-> k, act |-> a, acts |-> acts, next |-> ck, reward |-> r,
     explore |-> x, retKey |-> rk, retAct |-> ra]

NoResult == Result("none", NoneKey, "none", <<>>, NoneKey, 0, FALSE, NoneKey, "none")

LearnCall ==
    /\ lops < MaxLearnOps
    /\ lops' = lops + 1
    /\ UNCHANGED limpl

\* best_action with random.random() < epsilon: any possible action.
LearnExplore(st, acts, a) ==
    /\ LearnCall
    /\ a \in SeqRange(acts)
    /\ lq' = IF limpl = "utils" THEN utils_seen(lq, st, acts)
                                ELSE main_seen(lq, st, acts)
    /\ lres' = Result("best_action", st, "none", acts, NoneKey, 0, TRUE, NoneKey, a)
    /\ UNCHANGED <<tickVars, saveVars, lockVars, connVars, runVars, tabVars, funVars>>

\* best_action when it does not explore.
LearnGreedy(st, acts) ==
    /\ LearnCall
    /\ LET seen == IF limpl = "utils" THEN utils_seen(lq, st, acts)
                                      ELSE main_seen(lq, st, acts)
       IN  /\ lq' = greedy_table(seen, st, acts)
           /\ lres' = Result("best_action", st, "none", acts, NoneKey, 0, FALSE,
                             NoneKey, greedy_action(lq', st, acts))
    /\ UNCHANGED <<tickVars, saveVars, lockVars, connVars, runVars, tabVars, funVars>>

\* update with previous state pk, previous action pa and new state ck.
LearnUpdate(pk, pa, ck, reward) ==
    /\ LearnCall
    /\ lq' = IF limpl = "utils" THEN utils_update(lq, pk, pa, ck, reward)
                                ELSE main_update(lq, pk, pa, ck, reward)
    /\ lres' = Result("update", pk, pa, <<>>, ck, reward, FALSE, NoneKey, "none")
    /\ UNCHANGED <<tickVars, saveVars, lockVars, connVars, runVars, tabVars, funVars>>

\* lib/utils.py: the lookup by key, called for a key that is not in the table.
LearnFindClosest(k) ==
    /\ LearnCall
    /\ limpl = "utils"
    /\ ~HasKey(lq, k)
    /\ lres' = Result("find_closest", k, "none", <<>>, NoneKey, 0, FALSE,
                      find_closest_state_by_key(lq, k), "none")
    /\ UNCHANGED lq
    /\ UNCHANGED <<tickVars, saveVars, lockVars, connVars, runVars, tabVars, funVars>>

\* The tables a run may start from, as load() leaves them.
LearnTables ==
    {<<>>}
    \cup {<<[key |-> k1, row |-> <<[act |-> "a", val |-> v]>>]>> :
              k1 \in LKeys, v \in {0, 5 * Unit}}
    \cup {<<[key |-> p[1], row |-> <<[act |-> "a", val |-> 5 * Unit]>>],
            [key |-> p[2], row |-> <<[act |-> "b", val |-> Unit]>>]>> :
              p \in {x \in LKeys \X LKeys : x[1] # x[2]}}

LearnStartWith(q, impl) ==
    /\ lq = q
    /\ limpl = impl
    /\ lops = 0
    /\ lres = NoResult

LearnStart == LearnStartWith(<<>>, "main")

NextLearn ==
    \/ \E st \in LKeys, acts \in LActLists, a \in LActs : LearnExplore(st, acts, a)
    \/ \E st \in LKeys, acts \in LActLists : LearnGreedy(st, acts)
    \/ \E pk \in LKeys, pa \in LActs, ck \in LKeys, reward \in LRewards :
          LearnUpdate(pk, pa, ck, reward)
    \/ \E k \in LKeys : LearnFindClosest(k)

\* ------------- main.py, bot.py: get_possible_actions and get_state_key
\* A snapshot keeps what the two functions read: inSpawnPhase, the number of
\* cells in candidates.enemyNeighbors and in candidates.emptyNeighbors (the
\* cells of a list are told apart by their place in it), me.population in
\* thousandths, me.rank, me.conquestPercent in tenths. PRUNE_MAX_TARGETS is
\* scaled down from 50 to 4, the number of ATTACK_RATIOS, so that, as in the
\* source, one target fits under the cap with all its ratios and two do not.
ATTACK_RATIOS == <<20, 40, 60, 80>>

FPops == {0, 1004, 1006}

FRanks == {0, 2}

FConqs == {0, 19}

FSnapshots ==
    [inSpawn : BOOLEAN, enemy : 0..MaxCells, empty : 0..MaxCells,
     pop : FPops, rank : FRanks, conq : FConqs]

Cells(owner, n) == [i \in 1..n |-> [owner |-> owner, idx |-> i]]

NoCell == [owner |-> "none", idx |-> 0]

ActionOf(type, cell, ratio) == [type |-> type, cell |-> cell, ratio |-> ratio]

\* cells[:PRUNE_MAX_TARGETS]
Pruned(cells) ==
    SubSeq(cells, 1, IF Len(cells) < PRUNE_MAX_TARGETS THEN Len(cells)
                     ELSE PRUNE_MAX_TARGETS)

\* The two nested loops: for every cell kept, one attack per ratio.
AttacksOn(cells) ==
    [j \in 1..(Len(cells) * Len(ATTACK_RATIOS)) |->
        ActionOf("attack", cells[((j - 1) \div Len(ATTACK_RATIOS)) + 1],
                 ATTACK_RATIOS[((j - 1) % Len(ATTACK_RATIOS)) + 1])]

\* main.py Environment.get_possible_actions, bot.py get_possible_actions.
env_get_possible_actions(s) ==
    LET empty == Cells("empty", s.empty)
        enemy == Cells("enemy", s.enemy)
    IN  IF s.inSpawn
        THEN IF empty # <<>>
             THEN [i \in 1..Len(Pruned(empty)) |->
                      ActionOf("spawn", Pruned(empty)[i], 0)]
             ELSE <<ActionOf("none", NoCell, 0)>>
        ELSE IF enemy \o empty = <<>>
             THEN <<ActionOf("none", NoCell, 0)>>
             ELSE <<ActionOf("none", NoCell, 0)>> \o AttacksOn(Pruned(enemy \o empty))

\* A key that depends on how many calls were made before.
state_key_counting(s) ==
    [spawn |-> s.inSpawn, empty |-> s.empty, enemy |-> s.enemy,
     pop |-> fops, rank |-> s.rank, conq |-> s.conq \div 10]

\* main.py and bot.py, get_state_key: the fields of the formatted string;
\* {population:.2f} keeps hundredths, int(conquestPercent) drops the fraction.
state_key(s) ==
    [spawn |-> s.inSpawn, empty |-> s.empty, enemy |-> s.enemy,
     pop |-> (s.pop + 5) \div 10, rank |-> s.rank, conq |-> s.conq \div 10]

NoStateKey ==
    [spawn |-> FALSE, empty |-> 0, enemy |-> 0, pop |-> -1, rank |-> 0, conq |-> 0]

FunCalled(o, i, acts, k, e1, e2) ==
    [op |-> o, on |-> i, acts |-> acts, key |-> k, eps_in |-> e1, eps_out |-> e2]

FunCall ==
    /\ fops < MaxFunOps
    /\ fops' = fops + 1
    /\ UNCHANGED fsnap

FunPossibleActions(i) ==
    /\ FunCall
    /\ fcall' = FunCalled("get_possible_actions", i,
                          env_get_possible_actions(fsnap[i]), NoStateKey, 0, 0)
    /\ UNCHANGED <<fkeys, feps>>
    /\ UNCHANGED <<tickVars, saveVars, lockVars, connVars, runVars, tabVars,
                   learnVars>>

FunStateKey(i) ==
    /\ FunCall
    /\ fcall' = FunCalled("get_state_key", i, <<>>, state_key(fsnap[i]), 0, 0)
    /\ fkeys' = [fkeys EXCEPT ![i] = state_key(fsnap[i])]
    /\ UNCHANGED feps
    /\ UNCHANGED <<tickVars, saveVars, lockVars, connVars, runVars, tabVars,
                   learnVars>>

\* lib/bot_connection.py, line 309; main.py, line 599.
FunDecay ==
    /\ FunCall
    /\ feps' = DecayEpsilon(feps)
    /\ fcall' = FunCalled("decay", 0, <<>>, NoStateKey, feps, feps')
    /\ UNCHANGED fkeys
    /\ UNCHANGED <<tickVars, saveVars, lockVars, connVars, runVars, tabVars,
                   learnVars>>

FunStartWith(s1, s2, e) ==
    /\ fsnap = <<s1, s2>>
    /\ fcall = FunCalled("none", 0, <<>>, NoStateKey, 0, 0)
    /\ fkeys = <<NoStateKey, NoStateKey>>
    /\ feps = e
    /\ fops = 0

FunStart ==
    FunStartWith([inSpawn |-> FALSE, enemy |-> 0, empty |-> 0, pop |-> 0,
                  rank |-> 0, conq |-> 0],
                 [inSpawn |-> FALSE, enemy |-> 0, empty |-> 0, pop |-> 0,
                  rank |-> 0, conq |-> 0], EpsilonInit)

NextFun ==
    \/ \E i \in 1..2 : FunPossibleActions(i)
    \/ \E i \in 1..2 : FunStateKey(i)
    \/ FunDecay

ExtStart == TabStart /\ LearnStart /\ FunStart

\* ---------------------------------------------------------- specification
Modes == {"bot", "main", "iface"}

TickStart ==
    /\ pc = "idle"
    /\ msg = NoFrame
    /\ nrecv = 0
    /\ naccept = 0
    /\ last_tick = NoTick
    /\ last_in_spawn = FALSE
    /\ player_id = "null"
    /\ autosave_timer = 0
    /\ spawn_sent = FALSE
    /\ env_current = NoState
    /\ env_previous = NoState
    /\ previous_state = NoState
    /\ previous_action = "null"
    /\ epsilon = EpsilonInit
    /\ agent_qtable = EmptyFn
    /\ chosen = "null"
    /\ out = <<>>
    /\ lastLearn = [from |-> 0, to |-> 0, action |-> "null"]
    /\ useCount = 0
    /\ saved = FALSE
    /\ inOrder = TRUE
    /\ lastAccepted = NoFrame
    /\ pendingHanded = FALSE

Init ==
    /\ mode \in Modes
    /\ TickStart
    /\ SaveStart
    /\ LockStart
    /\ ConnStart
    /\ RunStart
    /\ ExtStart

Next ==
    \/ \E f \in Frames : BotDuplicate(f)
    \/ \E f \in Frames : BotSpawnNoLocation(f)
    \/ \E f \in Frames : BotAutoSpawn(f)
    \/ BotAutoSpawnSent
    \/ \E f \in Frames : BotProcess(f)
    \/ BotActionSent
    \/ \E f \in Frames : MainDuplicate(f)
    \/ \E f \in Frames : MainAutoSpawn(f)
    \/ MainAutoSpawnSent
    \/ \E f \in Frames : MainProcess(f)
    \/ MainActionSent
    \/ \E f \in Frames : IfaceDuplicate(f)
    \/ \E f \in Frames : IfaceProcessNone(f)
    \/ \E f \in Frames : IfaceProcessSend(f)
    \/ IfaceActionSent

Spec == Init /\ [][Next]_vars

InitSave ==
    /\ mode = "bot"
    /\ TickStart
    /\ \E f \in PriorFiles, m \in [Procs -> MutatedTables] : SaveStartWith(f, m)
    /\ LockStart
    /\ ConnStart
    /\ RunStart
    /\ ExtStart

SpecSave == InitSave /\ [][NextSave]_vars

SpecCrash == InitSave /\ [][NextCrash]_vars

InitLock ==
    /\ mode = "bot"
    /\ TickStart
    /\ SaveStart
    /\ \E f \in {[exists |-> FALSE, keys |-> {}], [exists |-> TRUE, keys |-> {"s1"}]} :
          LockStartWith(f)
    /\ ConnStart
    /\ RunStart
    /\ ExtStart

SpecLock == InitLock /\ [][NextLock]_vars

InitConn ==
    /\ mode = "bot"
    /\ TickStart
    /\ SaveStart
    /\ LockStart
    /\ \E r \in BOOLEAN, x \in {"none", "active"} : ConnStartWith(r, x)
    /\ RunStart
    /\ ExtStart

SpecConn == InitConn /\ [][NextConn]_vars

\* run_connection called for one websocket after another on the same handler.
NextSess ==
    \/ ReceiveMessage
    \/ ReceiveEnd
    \/ AgentStart
    \/ AgentWake
    \/ AgentIter
    \/ AgentIterRaises
    \/ AgentCancelled
    \/ SenderStart
    \/ SenderDispatch
    \/ SenderSendRaises
    \/ SenderCancelled
    \/ ExtraEnd
    \/ RunCancelTasks
    \/ RunReturn
    \/ Cleanup
    \/ RunConnectionAgain

SpecSess == InitConn /\ [][NextSess]_vars

InitRun ==
    /\ mode \in {"bot", "main"}
    /\ TickStart
    /\ SaveStart
    /\ LockStart
    /\ ConnStart
    /\ RunStartWith("connect", FALSE)
    /\ ExtStart

SpecRun == InitRun /\ [][NextRun]_vars

SpecReconnect == InitRun /\ [][NextReconnect]_vars

InitTable ==
    /\ mode = "bot"
    /\ TickStart
    /\ SaveStart
    /\ LockStart
    /\ ConnStart
    /\ RunStart
    /\ LearnStart
    /\ FunStart
    /\ \E f \in TabPriorFiles : TabStartWith(f)

SpecTable == InitTable /\ [][NextTable]_vars

InitLearn ==
    /\ mode = "bot"
    /\ TickStart
    /\ SaveStart
    /\ LockStart
    /\ ConnStart
    /\ RunStart
    /\ TabStart
    /\ FunStart
    /\ \E q \in LearnTables, impl \in Implementations : LearnStartWith(q, impl)

SpecLearn == InitLearn /\ [][NextLearn]_vars

\* The functions on two snapshots that are equal or differ in the population,
\* with an exploration rate at its start value or next to the floor.
InitFun ==
    /\ mode = "bot"
    /\ TickStart
    /\ SaveStart
    /\ LockStart
    /\ ConnStart
    /\ RunStart
    /\ TabStart
    /\ LearnStart
    /\ \E s1 \in FSnapshots, p \in FPops,
          e \in {EpsilonInit, EpsilonMin + 1, EpsilonMin - 1} :
          FunStartWith(s1, [s1 EXCEPT !.pop = p], e)

SpecFun == InitFun /\ [][NextFun]_vars

\* ------------------------------------------------- claims on the tick handlers
\* C1: for frames with increasing ticks, the learning update that credits the
\* action recorded at accepted frame T is made with the snapshot of the next
\* accepted frame, T+1, never with a later one.
C1_LearnsAgainstNextFrame ==
    (inOrder /\ lastLearn.action # "null") => lastLearn.to = lastLearn.from + 1

\* C2: a recorded transition is used by at most one learning update.
C2_TransitionUsedOnce == inOrder => useCount <= 1

\* C3 as claimed: the recorded transition never names an action that had not
\* been handed to the transport when it was recorded.
C3_PendingWasHanded == previous_action # "null" => pendingHanded

\* C3 amended: the recorded transition never names an action other than "none"
\* that had not been handed to the transport when it was recorded.
C3_PendingActionWasHanded == previous_action \notin {"null", "none"} => pendingHanded

C3_Witness ==
    /\ previous_action = "attack"
    /\ previous_state.seq = naccept
    /\ "attack" \in Range(out)
    /\ pc = "idle"

\* C8: a state frame whose tick equals the last accepted tick changes neither
\* the snapshots, the recorded transition, the table, epsilon nor the autosave
\* counter, sends no intent and saves nothing.
C8_DuplicateTickDiscarded ==
    [][(nrecv' = nrecv + 1 /\ msg'.tick = last_tick) =>
          /\ UNCHANGED <<env_current, env_previous, previous_state, previous_action,
                         agent_qtable, epsilon, autosave_timer, out, last_tick,
                         naccept>>
          /\ pc' = "idle"
          /\ ~saved']_vars

C8_Witness ==
    /\ naccept = 1
    /\ nrecv = 2
    /\ msg.tick = last_tick
    /\ previous_action # "null"
    /\ pc = "idle"

\* C9: accepted ticks are strictly increasing, and the stored current snapshot is
\* never older than the one it replaced.
C9_TicksStrictlyIncreasing ==
    /\ inOrder
    /\ env_previous # NoState => env_previous.tick < env_current.tick

\* ---------------------------------------------------- claims on persistence
MaxOf(S) == CHOOSE x \in S : \A y \in S : x >= y

\* Both processes have made one save, one after the other.
SavedInTurn ==
    /\ \A p \in Procs : nsave[p] = 1 /\ spc[p] = "idle"
    /\ ~overlap

\* The values the two tables held for a pair when their saves began.
Held(k) == {snap[p][k] : p \in {q \in Procs : k \in DOMAIN snap[q]}}

HeldOrPrior(k) ==
    Held(k) \cup (IF k \in DOMAIN file0.data THEN {file0.data[k]} ELSE {})

\* C4 as claimed: after tables A and B have been saved to the same file one
\* after the other, the file holds for every pair of A or B the maximum of the
\* values A and B held for it.
C4_FileHoldsMaxOfBoth ==
    SavedInTurn =>
        \A k \in DOMAIN file.data :
            Held(k) # {} => file.data[k] = MaxOf(Held(k))

\* C4 amended: after tables A and B have been saved to the same file one after
\* the other, the file holds every pair of A and B with a value never less than
\* either held, and the value of every pair is the maximum of the values held
\* by A, B and the prior file, or 0.0 when that maximum is negative.
C4_FileHoldsMaxOfBothAndPrior ==
    SavedInTurn =>
        /\ \A p \in Procs : \A k \in DOMAIN snap[p] :
              /\ file.kind = "table"
              /\ k \in DOMAIN file.data
              /\ file.data[k] >= snap[p][k]
        /\ \A k \in DOMAIN file.data :
              \/ file.data[k] = MaxOf(HeldOrPrior(k))
              \/ file.data[k] = 0 /\ MaxOf(HeldOrPrior(k)) < 0

C4_Witness ==
    /\ SavedInTurn
    /\ file.kind = "table"
    /\ \E k \in DOMAIN snap["P1"] \cap DOMAIN snap["P2"] \cap DOMAIN file0.data :
          /\ file.data[k] = file0.data[k]
          /\ file.data[k] > snap["P1"][k]
          /\ file.data[k] > snap["P2"][k]

\* C5: once two processes that saved concurrently are both done, the file holds
\* every pair of both with a value at least the one the saver held, and no saver
\* has read a torn image.
C5_ConcurrentSavesKeepBoth ==
    /\ ~readTorn
    /\ (\A p \in Procs : nsave[p] >= 1 /\ spc[p] = "idle") =>
          \A p \in Procs : \A k \in DOMAIN snap[p] :
              /\ file.kind = "table"
              /\ k \in DOMAIN file.data
              /\ file.data[k] >= snap[p][k]

\* C6: whenever the process is not inside save the file, if present, decodes to
\* a complete table, and load never starts from an empty table after entries
\* had been persisted.
C6_CrashLeavesCompleteImage ==
    /\ spc["P1"] \in {"idle", "crashed"} => file.kind # "torn"
    /\ ~lostAll

C10_ShutdownOrder ==
    /\ (gcancel \/ dcancel \/ xcancel) => rpc = "done"
    /\ ~earlyCancel
    /\ Returned => gpc = "done" /\ dpc = "done" /\ xpc \in {"none", "done"}
    /\ ~lateStep

C10_Witness ==
    /\ rcpc = "cleaned"
    /\ gcancel
    /\ dcancel
    /\ xcancel
    /\ nmsgs > 0

\* C11: the non-Wait actions are handed to send_action in the order in which
\* agent_loop enqueued them, none of them twice: the numbers of the sent
\* actions increase strictly, each is the number of a decision made, and
\* every action still queued was enqueued after every action sent.
C11_SentInEnqueueOrder ==
    /\ \A i, j \in 1..Len(sent_actions) :
           i < j => sent_actions[i] < sent_actions[j]
    /\ \A i \in 1..Len(sent_actions) : sent_actions[i] \in 1..ndec
    /\ \A i \in 1..Len(sent_actions), j \in 1..Len(queue) :
           sent_actions[i] < queue[j].id

\* The actions of two successive decisions were both sent while a third
\* action was waiting.
C11_Witness ==
    /\ Len(sent_actions) >= 2
    /\ queue # <<>>
    /\ \E i \in 1..(Len(sent_actions) - 1) :
           sent_actions[i + 1] = sent_actions[i] + 1

C12_QueueBounded == Len(queue) <= MaxQueue

C12_FullQueueBlocksDecision == Len(queue) >= MaxQueue => ndec' = ndec

\* C12: the action queue never holds more than MaxQueue actions, and while it
\* is full agent_loop makes no decision: a decision is only made in a state
\* whose queue has room.
C12_Backpressure == []C12_QueueBounded /\ [][C12_FullQueueBlocksDecision]_vars

\* The queue is full while agent_loop is ready for its next decision.
C12_Witness ==
    /\ Len(queue) = MaxQueue
    /\ gpc = "iter"
    /\ crunning
    /\ ndec < MaxActs

C13_DecisionUsesNewSnapshot == ndec' = ndec + 1 => nmsgs # decidedAt

\* C13: agent_loop selects at most one action per snapshot: a decision is
\* never made while the latest received state is the one the previous
\* decision was made on.
C13_OneDecisionPerSnapshot == [][C13_DecisionUsesNewSnapshot]_vars

\* C20: while the session is alive (running is set), a loop in which one
\* operation raised is still running: agent_loop after a failed decision
\* cycle, action_sender_loop after a failed send_action.
C20_LoopsSurviveFailure ==
    crunning => /\ (dfailed => dpc # "done")
                /\ (gfailed => gpc # "done")

\* A client accepts a frame in the spawn phase that offers a spawn location,
\* after an accepted frame (or the start of the connection) outside it.
C14_EdgeIntoPlacement ==
    /\ mode \in {"bot", "main"}
    /\ naccept' = naccept + 1
    /\ lastAccepted'.inSpawn
    /\ ~lastAccepted.inSpawn
    /\ choose_auto_spawn(Snapshot(lastAccepted', naccept')) # "null"

\* C14: every accepted state frame that is in the spawn phase, follows an
\* accepted frame (or the start of the connection) that is not, and offers a
\* spawn location makes the client send the default spawn intent instead of
\* asking the policy.
C14_AutoSpawnOnEveryEdge ==
    [][C14_EdgeIntoPlacement => pc' = "auto_sending" /\ chosen' = "spawn"]_vars

\* C15: no learning update made in one iteration of the reconnect loop uses a
\* (state, action) pair recorded in an earlier one: when the frame learned
\* for was accepted in this iteration, so was the frame of the pair.
C15_NoLearningAcrossSessions ==
    lastLearn.to >= sessFirst => lastLearn.from >= sessFirst

\* C16: every iteration of the reconnect loop that has ended, by exception or
\* by clean close, has called agent.save() from its finally clause exactly
\* once before the next iteration begins, and not before it ended.
C16_SavedOnceAtSessionEnd ==
    finalSaves = IF run_pc = "sleep" THEN 1 ELSE 0

\* A second connection processed a frame and was lost, after a first one that
\* was closed cleanly.
C16_Witness ==
    /\ run_pc = "sleep"
    /\ nsess = 2
    /\ established
    /\ naccept >= sessFirst
    /\ consecFails = 1
    /\ backoff = NextBackoff(BackoffInit)
    /\ finalSaves = 1

\* C17: after an iteration whose connection was made and closed cleanly, the
\* loop sleeps for the initial backoff.
C17_DelayResetAfterSuccess ==
    (run_pc = "sleep" /\ established /\ consecFails = 0) => backoff = BackoffInit

\* C18: after k >= 1 failed iterations in a row the backoff is
\* min(BackoffInit * 2^k, BackoffCap), and it always lies between BackoffInit
\* and BackoffCap.
C18_BackoffOfConsecutiveFailures ==
    /\ backoff >= BackoffInit /\ backoff <= BackoffCap
    /\ consecFails >= 1 =>
           backoff = IF BackoffInit * 2^consecFails < BackoffCap
                     THEN BackoffInit * 2^consecFails ELSE BackoffCap

\* The bookkeeping of a fresh connection.
C19_CountersFresh ==
    /\ last_tick' = NoTick
    /\ last_in_spawn' = FALSE
    /\ player_id' = "null"
    /\ autosave_timer' = 0

\* C19: a 'created' frame puts the bookkeeping of the connection back to the
\* values of a fresh connection.
C19_CreatedResetsCounters == [][ngames' = ngames + 1 => C19_CountersFresh]_vars

\* --------------------------------------------- claims on the table (C23-C26)
\* Every entry of table t is an entry of table u.
C26_EntriesKept(t, u) ==
    \A k \in DOMAIN t :
        /\ k \in DOMAIN u
        /\ \A a \in DOMAIN t[k] : a \in DOMAIN u[k] /\ u[k][a] = t[k][a]

\* C26: ensure_state_exists is idempotent: a second call with the same state
\* key and action keys leaves the table as the first call left it, and the
\* first call changes the value of no entry that already existed.
C26_EnsureIdempotent ==
    [][\A s \in TKeys, acts \in SUBSET TActs :
          TabEnsureStateExists(s, acts) =>
              /\ ensure_state_exists(tq', s, acts) = tq'
              /\ C26_EntriesKept(tq, tq')]_vars

\* A call on a state that holds a nonzero entry has added an action at 0.
C26_Witness ==
    /\ tops = 2
    /\ tlast.op = "ensure"
    /\ \E k \in TKeys :
          /\ DOMAIN tq = {k}
          /\ \E a, b \in DOMAIN tq[k] : tq[k][a] > 0 /\ tq[k][b] = 0

\* The (state, action) pairs of a table.
C25_Pairs(t) == UNION {{<<k, a>> : a \in DOMAIN t[k]} : k \in DOMAIN t}

\* C25: no entry is deleted by set_q_value, ensure_state_exists, the read
\* operations or save() with its merge of the on-disk image: every state key
\* and every (state, action) pair of the table before the operation is in the
\* table after it, so the number of keys does not decrease.
C25_NoEntryDeleted ==
    [][tlast'.op \in {"set", "ensure", "read", "save"} =>
          /\ DOMAIN tq \subseteq DOMAIN tq'
          /\ C25_Pairs(tq) \subseteq C25_Pairs(tq')
          /\ Cardinality(C25_Pairs(tq)) <= Cardinality(C25_Pairs(tq'))]_vars

\* A save has merged an image holding a state the table did not have.
C25_Witness ==
    /\ tops = 2
    /\ tlast.op = "save" /\ tlast.out = "ok"
    /\ DOMAIN tq = {"s1", "s2"}

\* Every entry of table t is in table u with a value not lower.
C23_NotLower(t, u) ==
    \A k \in DOMAIN t :
        /\ k \in DOMAIN u
        /\ \A a \in DOMAIN t[k] : a \in DOMAIN u[k] /\ u[k][a] >= t[k][a]

\* C23: save() never raises past its caller and never discards in-memory
\* learning: whether it succeeds or reading or writing the file fails, it
\* returns normally and every (state, action) entry of the table before the
\* call is still there with a value not lower than before.
C23_SaveKeepsLearning ==
    [][tlast'.op = "save" =>
          /\ ~tlast'.raised
          /\ C23_NotLower(tq, tq')]_vars

\* A save whose write failed has returned and the table still holds a
\* learned value.
C23_Witness ==
    /\ tlast.op = "save" /\ tlast.out = "write_failed"
    /\ tfile = BadFile
    /\ tdirty
    /\ \E k \in DOMAIN tq : \E a \in DOMAIN tq[k] : tq[k][a] = MaxQ

\* C24: load() never raises: when the file is absent, or present but cannot
\* be decoded, it returns normally and the in-memory table is the empty
\* table; when decoding succeeds the in-memory table is the decoded image.
C24_LoadNeverRaises ==
    tlast.op = "load" =>
        /\ ~tlast.raised
        /\ tlast.out \in {"absent", "failed"} => tq = EmptyFn
        /\ tlast.out = "ok" => tfile.kind = "table" /\ tq = tfile.data

\* A load of an undecodable file has emptied a table that held a value.
C24_Witness ==
    /\ tops = 2
    /\ tlast.op = "load" /\ tlast.out = "failed"
    /\ tfile = BadFile
    /\ tdirty
    /\ tq = EmptyFn

\* -------------------------------------------------- cancellation (C22)
\* C22: cancellation never interrupts a table operation inside its critical
\* section: a task is cancelled only where it is between operations or waits
\* for the lock, a cancelled task does not hold the lock, and when a
\* cancellation takes effect the lock is free.
C22_CancelOutsideCritical ==
    /\ [](\A t \in Tasks :
             cancelledAt[t] # "no" =>
                 cancelledAt[t] \in {"idle", "waiting"} /\ lock_holder # t)
    /\ [][cancelledAt' # cancelledAt => lock_holder' = "free"]_vars

\* A task is cancelled after its set_q_value was applied and the other task,
\* cancelled too, had saved the table.
C22_Witness ==
    /\ cancelledAt["T1"] = "idle" /\ top["T1"] = "set_q_value"
    /\ cancelledAt["T2"] = "idle" /\ top["T2"] = "save"
    /\ ltable # {} /\ lfile.exists /\ ~ldirty
    /\ lock_holder = "free"

\* ------------------------------------------------ malformed frames (C21)
\* C21: a malformed inbound frame never terminates the ingest loop or the
\* connection: no connection is ended by a frame.
C21_FrameNeverEndsSession == endedBy # "frame"

\* --------------------------------------- the learning functions (C27-C30)
\* An update whose new state is not a key of the table, on a previous state
\* that is: the stored value moves as the formula moves it with a bootstrap
\* term of 0.
C27_ZeroBootstrap ==
    (/\ lres'.op = "update"
     /\ HasKey(lq, lres'.key)
     /\ ~HasKey(lq, lres'.next))
    => LET old == RowGet(RowAt(lq, lres'.key), lres'.act)
       IN  RowGet(RowAt(lq', lres'.key), lres'.act)
               = old + Delta(lres'.reward, 0, old)

\* C27: in the learning update the bootstrap term is 0 whenever the new key
\* is not itself a key of the table; no nearest state's values are
\* substituted.
C27_BootstrapZeroWhenUnseen == [][C27_ZeroBootstrap]_vars

\* An update of an entry that is missing, with a new state that is a key of
\* the table with a row that is not empty: the value stored is the formula on
\* an old value of 0, and the other entries under the previous key are the
\* ones it had.
C28_MissingEntryIsZero ==
    (/\ lres'.op = "update"
     /\ ~(HasKey(lq, lres'.key) /\ RowHas(RowAt(lq, lres'.key), lres'.act))
     /\ HasKey(lq, lres'.next)
     /\ RowAt(lq, lres'.next) # <<>>)
    => LET before == IF HasKey(lq, lres'.key) THEN RowAt(lq, lres'.key) ELSE <<>>
           after == RowAt(lq', lres'.key)
       IN  /\ RowGet(after, lres'.act)
                  = Delta(lres'.reward, RowMax(RowAt(lq, lres'.next)), 0)
           /\ SeqRange(after) \ SeqRange(before)
                  = {[act |-> lres'.act, val |-> RowGet(after, lres'.act)]}
           /\ SeqRange(before) \subseteq SeqRange(after)

\* C28: in the learning update a missing entry Q(prevKey, prevAction) counts
\* as 0 before the update, and after the update the only new or changed entry
\* under prevKey is (prevKey, prevAction).
C28_MissingEntryTreatedAsZero == [][C28_MissingEntryIsZero]_vars

\* The greedy branch has returned a possible action whose value in the row
\* is maximal among the possible actions.
C29_ReturnsMaximal ==
    (lres.op = "best_action" /\ ~lres.explore)
    => /\ lres.retAct \in SeqRange(lres.acts)
       /\ \A a \in SeqRange(lres.acts) :
              RowGet(RowAt(lq, lres.key), a) <= RowGet(RowAt(lq, lres.key), lres.retAct)

\* No possible action listed before the returned one has the same value.
C29_FirstInList ==
    (lres.op = "best_action" /\ ~lres.explore)
    => \A i, j \in 1..Len(lres.acts) :
           (lres.acts[j] = lres.retAct /\ i < j)
           => RowGet(RowAt(lq, lres.key), lres.acts[i])
                  # RowGet(RowAt(lq, lres.key), lres.retAct)

\* C29: when not exploring, best_action returns a legal action whose stored
\* value is maximal among the legal actions, and among several with the same
\* maximal value the one that comes first in possible_actions.
C29_GreedyFirstOfMaximal == C29_ReturnsMaximal /\ C29_FirstInList

\* The keys of the table that have a feature vector.
C30_Vectored(q) == {i \in 1..Len(q) : q[i].key.ok}

C31_FirstActionOnEmptyTable ==
    [][(/\ lq = <<>>
        /\ lres'.op = "best_action"
        /\ ~lres'.explore
        /\ Len(lres'.acts) = 1)
       => /\ lres'.retAct = lres'.acts[1]
          /\ lq' = <<[key |-> lres'.key,
                      row |-> <<[act |-> lres'.acts[1], val |-> 0]>>]>>]_vars

\* best_action has returned the only legal action, b, on a table that was
\* empty (no table a run starts from holds a row of b alone).
C31_Witness ==
    /\ lres.op = "best_action" /\ ~lres.explore
    /\ lres.acts = <<"b">> /\ lres.retAct = "b"
    /\ Len(lq) = 1 /\ lq[1].key = lres.key
    /\ lq[1].row = <<[act |-> "b", val |-> 0]>>

\* ------------------------- actions, keys and the exploration rate (C32-C35)
\* C32: get_possible_actions always includes the 'none' action in its result,
\* for every snapshot.
C32_AlwaysIncludesWait ==
    fcall.op = "get_possible_actions"
    => \E i \in 1..Len(fcall.acts) : fcall.acts[i].type = "none"

\* The attack actions of the latest result.
C33_Attacks == SelectSeq(fcall.acts, LAMBDA a : a.type = "attack")

\* When an unclaimed cell is a target, every enemy cell of the snapshot is.
C33_EnemyPreferred ==
    fcall.op = "get_possible_actions"
    => ((\E i \in 1..Len(C33_Attacks) : C33_Attacks[i].cell.owner = "empty")
        => \A n \in 1..fsnap[fcall.on].enemy :
               \E i \in 1..Len(C33_Attacks) :
                   C33_Attacks[i].cell = [owner |-> "enemy", idx |-> n])

\* C33: the number of attack actions get_possible_actions returns is at most
\* PRUNE_MAX_TARGETS, and when candidates are truncated every enemy-owned
\* candidate is kept in preference to any unclaimed one.
C33_BoundedFanOut ==
    /\ fcall.op = "get_possible_actions" => Len(C33_Attacks) <= PRUNE_MAX_TARGETS
    /\ C33_EnemyPreferred

\* C34: a decay step leaves epsilon at or above EPSILON_MIN, leaves it at
\* EPSILON_MIN once it is there, and does not increase an epsilon that is at
\* or above the minimum.
C34_ExplorationFloor ==
    fcall.op = "decay"
    => /\ feps = fcall.eps_out
       /\ fcall.eps_out >= EpsilonMin
       /\ fcall.eps_in = EpsilonMin => fcall.eps_out = EpsilonMin
       /\ fcall.eps_in >= EpsilonMin => fcall.eps_out <= fcall.eps_in

\* An epsilon that a first step has brought down to the minimum has been
\* through a second step.
C34_Witness ==
    /\ fops = 2
    /\ fcall.op = "decay"
    /\ fcall.eps_in = EpsilonMin
    /\ feps = EpsilonMin

C36_Has(t, k, a) == k \in DOMAIN t /\ a \in DOMAIN t[k]

\* C36: when save() merges the on-disk image into memory, a pair that is
\* only on disk enters memory with exactly its on-disk value, also when that
\* value is negative, and a pair that is only in memory keeps its value.
C36_OneSidedEntryKept ==
    [][(tlast'.op = "save" /\ tlast'.out = "ok" /\ tfile.kind = "table")
       => \A k \in TKeys, a \in TActs :
              /\ (C36_Has(tfile.data, k, a) /\ ~C36_Has(tq, k, a))
                     => (C36_Has(tq', k, a) /\ tq'[k][a] = tfile.data[k][a])
              /\ (C36_Has(tq, k, a) /\ ~C36_Has(tfile.data, k, a))
                     => (C36_Has(tq', k, a) /\ tq'[k][a] = tq[k][a])]_vars

\* C37: after set_q_value(s, a, v) followed by save(), get_q_value(s, a)
\* returns v, whatever the on-disk image contains.
C37_ReadYourWrites ==
    [][(tlast.op = "set" /\ tlast'.op = "save")
       => get_q_value(tq', tlast.wrote.key, tlast.wrote.act) = tlast.wrote.val]_vars

\* C38: save() of a non-empty table with no file before writes the table as
\* it is, load() on a new QTable object yields the table of the file, and a
\* second save() with no mutation in between leaves the file and the table
\* unchanged.
C38_SaveLoadRoundTrip ==
    /\ [][(tlast'.op = "save" /\ tlast'.out = "ok" /\ tfile.kind = "absent"
           /\ tq # EmptyFn)
          => (tq' = tq /\ tfile'.kind = "table" /\ tfile'.data = tq)]_vars
    /\ [][(tlast'.op = "load" /\ tlast'.out = "ok") => tq' = tfile.data]_vars
    /\ [][(tlast.op = "save" /\ tlast.out = "ok"
           /\ tlast'.op = "save" /\ tlast'.out = "ok")
          => (tq' = tq /\ tfile' = tfile)]_vars

\* With no file at the beginning, a table that is not empty was saved and
\* then loaded.
C38_Witness ==
    /\ tfile0 = NoFile
    /\ tops = 3
    /\ tlast.op = "load" /\ tlast.out = "ok"
    /\ tq = tfile.data
    /\ \E k \in DOMAIN tq : tq[k] # EmptyFn

\* C39: no action crosses a session boundary: an action that is still on the
\* action queue when run_connection is called again is never handed to
\* send_action in the later session.
C39_NoActionCrossesSession ==
    \A i \in 1..Len(sent_actions) :
        \A j \in 1..Len(leftover) : sent_actions[i] \notin leftover[j]

\* A step in which the tick handler of lib/bot_connection.py finishes a state
\* frame it has processed in full: the environment was updated and either
\* the chosen action was Wait or the chosen action has been sent.
C40_FrameProcessed ==
    /\ mode = "bot"
    /\ pc' = "idle"
    /\ \/ pc = "sending"
       \/ pc = "idle" /\ naccept' = naccept + 1 /\ env_current' # env_current

C40_CounterInRange ==
    mode = "bot" => 0 <= autosave_timer /\ autosave_timer < AUTOSAVE_INTERVAL

C40_CounterStep ==
    /\ C40_FrameProcessed =>
          IF autosave_timer + 1 = AUTOSAVE_INTERVAL
          THEN saved' /\ autosave_timer' = 0
          ELSE ~saved' /\ autosave_timer' = autosave_timer + 1
    /\ (mode = "bot" /\ ~C40_FrameProcessed) =>
          /\ saved' => saved
          /\ autosave_timer' # autosave_timer =>
                autosave_timer' = 0 /\ run_pc' = "connect"

\* C40: the autosave counter is incremented only by a state frame processed in
\* full, never by a duplicate tick or by the auto-spawn frame; the frame that
\* brings it to AUTOSAVE_INTERVAL saves the table and resets it to 0, no other
\* frame saves; the only other change is the reset to 0 when the reconnect
\* loop starts a connection; 0 <= autosave_timer < AUTOSAVE_INTERVAL always.
C40_PeriodicPersistence == []C40_CounterInRange /\ [][C40_CounterStep]_vars

\* A duplicate tick was discarded, and the second frame processed in full
\* saved the table and reset the counter.
C40_Witness ==
    /\ mode = "bot"
    /\ pc = "idle"
    /\ nrecv > naccept
    /\ naccept >= AUTOSAVE_INTERVAL
    /\ saved
    /\ autosave_timer = 0

====
